---- MODULE Spec2Model ----
(***************************************************************************)
(* Model of wasatch/BLEDevice.py: the synchronous device methods           *)
(* (acquire_data, change_settings, close) called from caller threads, and  *)
(* the coroutines they submit to the device's asyncio loop (ble_acquire,   *)
(* set_integration_time_ms, set_gain, disconnect_spec).                    *)
(*                                                                         *)
(* Threads interleave at statement granularity; coroutines on the loop     *)
(* interleave only at their await points.                                  *)
(***************************************************************************)
EXTENDS Integers, Sequences, FiniteSets, TLC

(* ------------------------------ bounds -------------------------------- *)
MaxCalls == 1          \* acquire_data calls made by each caller thread
MaxClose == 2          \* close() calls
MaxSets  == 1          \* change_settings calls
MaxOps   == 3          \* calls made on a SpectrometerSettings object
MaxBusUpdates == 2     \* WasatchBus.update() calls after construction
MAX_PAGES     == 2     \* EEPROM.MAX_PAGES, scaled down
SUBPAGE_COUNT == 2     \* EEPROM.SUBPAGE_COUNT, scaled down
MAX_INTENSITY_TERMS == 3   \* EEPROM.MAX_INTENSITY_TERMS, scaled down

Callers == {1, 2}      \* threads that call acquire_data

(* --------------------------- program constants ------------------------ *)
MAX_RETRIES       == 4
THROWAWAY_SPECTRA == 6
header_len        == 2

SET_INT_UUID         == "SET_INT"
SET_GAIN_UUID        == "SET_GAIN"
DEVICE_ACQUIRE_UUID  == "DEVICE_ACQUIRE"
SPECTRUM_PIXELS_UUID == "SPECTRUM_PIXELS"
READ_SPECTRUM_UUID   == "READ_SPECTRUM"
SELECT_EEPROM_PAGE_UUID == "SELECT_EEPROM_PAGE"
READ_EEPROM_UUID        == "READ_EEPROM"

(* ------------------------------ inputs -------------------------------- *)
\* settings.eeprom.active_pixels_horizontal of the connected device
PixelCounts == {1, 6}
\* settings.state.integration_time_ms
IntegrationTimes == {10}

\* Responses the device may give to a read of READ_SPECTRUM_UUID, as byte
\* sequences: header (big-endian first pixel) then little-endian pixels.
RespEmpty   == << >>
RespOdd     == <<0, 0, 7>>
RespNack    == <<255, 255>>
RespBeyond  == <<0, 9, 1, 0>>
RespSix     == <<0, 0, 1, 0, 2, 0, 3, 0, 4, 0, 5, 0, 6, 0>>
RespHeaderOnly == <<0, 0>>
RespFirst   == <<0, 0, 9, 0>>
RespSecond  == <<0, 1, 8, 0>>

\* What the device answers to the successive reads of one acquisition.
Scripts ==
    { <<RespSix>>,
      <<RespOdd, RespSix>>,
      <<RespBeyond, RespSix>>,
      <<RespNack, RespEmpty, RespOdd, RespNack, RespEmpty>> }

\* Devices that give the same response to every read without end.
EndlessScripts == {<<RespHeaderOnly>>, <<RespNack>>, <<RespSix>>}

\* A device that rejects five requests, with one-pixel packets in between.
MixedScript ==
    <<RespNack, RespFirst, RespOdd, RespSecond, RespEmpty, RespNack, RespOdd>>
AcquireScripts == EndlessScripts \cup {MixedScript}

\* (setting, value) pairs handed to change_settings; gain is in tenths.
SettingCalls ==
    { <<"integration_time_ms", 300>>,
      <<"detector_gain", 25>>,
      <<"laser_enable", 1>> }

\* (setting, value) pairs at and beyond the ends of what two bytes hold
SettingWrites ==
    { <<"integration_time_ms", 0>>,
      <<"integration_time_ms", 300>>,
      <<"integration_time_ms", 65535>>,
      <<"integration_time_ms", 65536>>,
      <<"detector_gain", 0>>,
      <<"detector_gain", 25>>,
      <<"detector_gain", 81>>,
      <<"detector_gain", 2559>>,
      <<"detector_gain", 2560>>,
      <<"shutter_enable", 1>> }

\* JSON documents handed to update_from_json: each section is a dictionary
\* from keys to values, present or not.
Doc(hasF, f, hasE, e) ==
    [has_fpga |-> hasF, fpga |-> f, has_eeprom |-> hasE, eeprom |-> e]
NoDict == [k \in {} |-> 0]
EepromDoc(e) == Doc(FALSE, NoDict, TRUE, e)

Docs ==
    { Doc(FALSE, NoDict, FALSE, NoDict),
      Doc(TRUE, ("has_cf_select" :> TRUE) @@ ("bogus" :> 1), FALSE, NoDict),
      EepromDoc(("serial_number" :> "WP-2") @@ ("bogus" :> 1)),
      EepromDoc("wavelength_coeffs" :> [present |-> TRUE, v |-> <<1, 2, 1, 1>>]),
      EepromDoc("wavelength_coeffs" :> [present |-> TRUE, v |-> <<5, 1>>]),
      EepromDoc("wavelength_coeffs" :> [present |-> FALSE, v |-> << >>]),
      EepromDoc("active_pixels_horizontal" :> 3),
      EepromDoc("active_pixels_horizontal" :> 0),
      EepromDoc("excitation_nm_float" :> [kind |-> "num", v |-> 8304]),
      EepromDoc("excitation_nm_float" :> [kind |-> "num", v |-> 99990]),
      EepromDoc("excitation_nm_float" :> [kind |-> "NaN", v |-> 0]),
      EepromDoc("excitation_nm" :> 7850),
      EepromDoc("excitation_nm" :> 4),
      EepromDoc(("has_raman_intensity_calibration" :> TRUE)
                @@ ("raman_intensity_calibration_format" :> 1)
                @@ ("raman_intensity_coeffs" :> [present |-> TRUE, v |-> <<0, 1>>])),
      EepromDoc(("has_raman_intensity_calibration" :> TRUE)
                @@ ("raman_intensity_calibration_format" :> 1)
                @@ ("raman_intensity_coeffs" :> [present |-> TRUE, v |-> <<300, 10>>])),
      EepromDoc("raman_intensity_calibration_format" :> MAX_INTENSITY_TERMS) }

\* coefficient arguments of a direct update_wavecal call
WavecalArgs ==
    { [present |-> FALSE, v |-> << >>],
      [present |-> TRUE, v |-> <<2, 1, 0, 0>>] }

\* What DeviceListFID() does when USBBus.update instantiates it: it lists
\* device ids in discovery order, or raises USBError (no libusb backend), or
\* raises another exception.
Devices(ids)   == [kind |-> "devices", ids |-> ids]
BackendMissing == [kind |-> "missing", ids |-> << >>]
BackendError   == [kind |-> "error", ids |-> << >>]
BackendOutcomes ==
    { Devices(<< >>), Devices(<<"A">>), Devices(<<"A", "B">>),
      Devices(<<"B", "A">>), BackendMissing, BackendError }

\* the monitor_dir argument of WasatchBus(): None or a directory
MonitorDirs == {"", "dir"}

\* Strings that are searched or case-folded are sequences of characters.
DetS11511 == <<"S", "1", "1", "5", "1", "1">>
DetS10141 == <<"S", "1", "0", "1", "4", "1">>
DetG9214  == <<"G", "9", "2", "1", "4">>
Det7031   == <<"7", "0", "3", "1">>
DetBle    == <<"b", "l", "e">>

\* detector names an EEPROM may carry
DetectorNames ==
    { DetBle,
      << >>,
      DetS11511,
      <<"s", "1", "1", "5", "1", "1">>,
      <<"S", "1", "1", "5", "1", "0">>,
      DetS10141 \o <<"-", "1", "1">>,
      <<"x", "g", "9", "2", "1", "4">>,
      Det7031,
      DetG9214 \o DetS11511 }

\* EEPROM sections that set the fields default_detector_setpoint_degC reads
SetpointDocs ==
    { EepromDoc(("format" :> f) @@ ("startup_temp_degC" :> t)
                @@ ("detector" :> d)) :
        f \in {0, 3, 4, 5}, t \in {-15, 10, 25}, d \in DetectorNames }

\* integer inputs of generate_wavelengths
PolyPixels == 0..3
PolyCoeffs == -1..2

\* EEPROM(): the field values of a freshly constructed EEPROM object
DefaultPixels == 2
DefaultEeprom ==
    [ serial_number |-> "UNKNOWN",
      model |-> "UNKNOWN",
      wavelength_coeffs |-> [present |-> TRUE, v |-> <<0, 1, 0, 0>>],
      excitation_nm |-> 0,
      excitation_nm_float |-> [kind |-> "num", v |-> 0],
      has_raman_intensity_calibration |-> FALSE,
      raman_intensity_calibration_format |-> 0,
      raman_intensity_coeffs |-> [present |-> FALSE, v |-> << >>],
      format |-> 0,
      startup_temp_degC |-> 15,
      detector |-> << >> ]
\* FPGAOptions()
DefaultFpgaOptions == [has_cf_select |-> FALSE]

(* ------------------------------ values -------------------------------- *)
NoneVal    == [kind |-> "None",    spectrum |-> << >>]
TrueVal    == [kind |-> "True",    spectrum |-> << >>]
PendingVal == [kind |-> "Pending", spectrum |-> << >>]
NoTask     == [kind |-> "none", owner |-> 0, arg |-> 0, pc |-> "none"]

Task(k, o, a) == [kind |-> k, owner |-> o, arg |-> a, pc |-> "start"]

VARIABLES
    pixels,                 \* settings.eeprom.active_pixels_horizontal
    integration_time_ms,    \* settings.state.integration_time_ms
    script,                 \* responses the device has ready
    performing_acquire,     \* self.performing_acquire
    perfroming_acquire,     \* self.perfroming_acquire (attribute set by acquire_data)
    disconnect,             \* self.disconnect
    disconnect_event,       \* self.disconnect_event.is_set()
    session_reading_count,  \* self.session_reading_count
    pc,                     \* position of each caller thread in acquire_data
    ncalls,                 \* acquire_data calls started by each caller
    fut,                    \* future of the coroutine each caller submitted
    result,                 \* value the caller's last acquire_data returned
    closer,                 \* position of the thread calling close()
    nclose,                 \* close() calls started
    closefut,               \* future of disconnect_spec
    nsets,                  \* change_settings calls made
    ready,                  \* loop: coroutines ready to run, in order
    running,                \* loop: the coroutine being run
    waiting,                \* loop: coroutines suspended in a transport await
    calls,                  \* transport calls issued, in order
    connector,              \* position of the thread calling connect()
    connfut,                \* future of the coroutine connect() submitted
    ee,                     \* get_eeprom: its locals i, j, buf, pages
    dev_eeprom,             \* device: the bytes of each (page, subpage)
    dev_selected,           \* device: the (page, subpage) last selected
    buffers,                \* settings.eeprom.buffers
    label,                  \* self.label
    eeprom,                 \* settings.eeprom (fields other than pixels)
    fpga_options,           \* settings.fpga_options
    wavelengths,            \* settings.wavelengths
    wavenumbers,            \* settings.wavenumbers
    raman_intensity_factors,\* settings.raman_intensity_factors
    lock_wavecal,           \* settings.lock_wavecal
    log,                    \* log records emitted
    raised,                 \* exception the last settings call raised to its caller
    lastop,                 \* the last settings call made and its return value
    nops,                   \* settings calls made
    wasatch_bus,            \* the WasatchBus object and its USBBus
    backend                 \* what DeviceListFID() meets when it enumerates

connvars == <<connector, connfut, ee, dev_eeprom, dev_selected, buffers,
              label>>

setvars == <<eeprom, fpga_options, wavelengths, wavenumbers,
             raman_intensity_factors, lock_wavecal, log, raised, lastop,
             nops>>

busvars == <<wasatch_bus, backend>>

blevars == <<performing_acquire, perfroming_acquire, disconnect,
             disconnect_event, session_reading_count, pc, ncalls, fut,
             result, closer, nclose, closefut>>

vars == <<pixels, integration_time_ms, script, performing_acquire,
          perfroming_acquire, disconnect, disconnect_event,
          session_reading_count, pc, ncalls, fut, result, closer, nclose,
          closefut, nsets, ready, running, waiting, calls, connvars,
          setvars, busvars>>

devvars == <<pixels, integration_time_ms, script>>

\* no WasatchBus has been constructed
NoBus ==
    [state |-> "none", raised |-> "none", kind |-> "none",
     device_ids |-> << >>, backend_error_raised |-> FALSE,
     usb_ret |-> << >>, warned |-> 0, nmissing |-> 0, nupdates |-> 0]

(* ------------------------- optional values ---------------------------- *)
\* Python None and a present value
Absent     == [present |-> FALSE, v |-> << >>]
Some(v)    == [present |-> TRUE, v |-> v]

\* Floating-point numbers are kept exact, in tenths: 8304 is 830.4.
NoFloat    == [kind |-> "None", v |-> 0]
NaN        == [kind |-> "NaN", v |-> 0]
Float(t)   == [kind |-> "num", v |-> t]

\* largest exponent e for which math.pow(10, e) does not raise OverflowError
MaxExp10 == 308

(* --------------------------- wasatch/utils.py ------------------------- *)
RECURSIVE GenerateWavelengthsFrom(_, _, _, _, _, _)
\* the loop of generate_wavelengths, from pixel x on
GenerateWavelengthsFrom(x, pixelcount, c0, c1, c2, c3) ==
    IF x >= pixelcount THEN << >>
    ELSE <<c0 + c1 * x + c2 * x * x + c3 * x * x * x>>
         \o GenerateWavelengthsFrom(x + 1, pixelcount, c0, c1, c2, c3)

\* generate_wavelengths with the cubic term dropped
generate_wavelengths_NoCubic(pixelcount, c0, c1, c2, c3) ==
    GenerateWavelengthsFrom(0, pixelcount, c0, c1, c2, 0)

generate_wavelengths(pixelcount, c0, c1, c2, c3) ==
    GenerateWavelengthsFrom(0, pixelcount, c0, c1, c2, c3)

\* base - 1e7 / wavelength, with base = 1e7 / excitation: kept as the pair
\* of excitation (tenths) and wavelength that determines it
Wavenumber(excitation10, wavelength) == [exc |-> excitation10, wl |-> wavelength]
ZeroWavenumber == [exc |-> 0, wl |-> 0]

\* generate_wavenumbers; excitation < 1 is excitation10 < 10
generate_wavenumbers(excitation10, wl) ==
    IF Len(wl) = 0 \/ excitation10 < 10 THEN << >>
    ELSE [i \in 1..Len(wl) |->
            IF wl[i] # 0 THEN Wavenumber(excitation10, wl[i])
            ELSE ZeroWavenumber]

\* an update that sets every key of src_dict, creating attributes
update_obj_from_dict_SetAll(dest_obj, src_dict) == src_dict @@ dest_obj

\* update_obj_from_dict: only the attributes dest_obj already has are set
update_obj_from_dict(dest_obj, src_dict) ==
    [k \in DOMAIN dest_obj |->
        IF k \in DOMAIN src_dict THEN src_dict[k] ELSE dest_obj[k]]

(* ------------------- SpectrometerSettings accessors ------------------- *)
\* excitation(): the value returned, in tenths
excitation(e) ==
    LET old == e.excitation_nm
        new == e.excitation_nm_float
    IN  IF new.kind \in {"None", "NaN"} THEN old
        ELSE IF 2000 <= new.v /\ new.v <= 25000 THEN new.v
        ELSE old

\* excitation(): the log records it emits (line 97-98)
excitation_log(e) ==
    LET new == e.excitation_nm_float
    IN  IF new.kind = "num" /\ ~(2000 <= new.v /\ new.v <= 25000) /\ new.v # 0
          THEN {[level |-> "debug", msg |-> "excitation outside range"]}
          ELSE {}

has_excitation(e) == excitation(e) > 0

\* float(round(x, 0)) for x >= 0 in tenths: halves go to the even integer
RoundTenths(t) ==
    LET q == t \div 10
        r == t % 10
    IN  IF r < 5 THEN 10 * q
        ELSE IF r > 5 THEN 10 * (q + 1)
        ELSE IF q % 2 = 0 THEN 10 * q ELSE 10 * (q + 1)

\* str.upper() on the letters that occur in DetectorNames
UpperChar(ch) ==
    CASE ch = "s" -> "S"
      [] ch = "g" -> "G"
      [] ch = "x" -> "X"
      [] ch = "b" -> "B"
      [] ch = "l" -> "L"
      [] ch = "e" -> "E"
      [] OTHER -> ch
upper(str) == [i \in 1..Len(str) |-> UpperChar(str[i])]

\* the Python test: needle in str
In(needle, str) ==
    \E i \in 1..(Len(str) - Len(needle) + 1) :
        SubSeq(str, i, i + Len(needle) - 1) = needle

\* default_detector_setpoint_degC that compares the name as stored
default_detector_setpoint_degC_CaseSensitive(e) ==
    IF e.format >= 4 THEN Some(e.startup_temp_degC)
    ELSE LET det == e.detector
         IN  IF In(DetS11511, det) THEN Some(10)
             ELSE IF In(DetS10141, det) THEN Some(-15)
             ELSE IF In(DetG9214, det) THEN Some(-15)
             ELSE IF In(Det7031, det) THEN Some(-15)
             ELSE Absent

\* default_detector_setpoint_degC: lines 110-134, the value returned
default_detector_setpoint_degC(e) ==
    IF e.format >= 4 THEN Some(e.startup_temp_degC)
    ELSE LET det == upper(e.detector)
         IN  IF In(DetS11511, det) THEN Some(10)
             ELSE IF In(DetS10141, det) THEN Some(-15)
             ELSE IF In(DetG9214, det) THEN Some(-15)
             ELSE IF In(Det7031, det) THEN Some(-15)
             ELSE Absent

\* EEPROM.has_raman_intensity_calibration()
has_raman_intensity_calibration(e) == e.has_raman_intensity_calibration

(* -------------------- SpectrometerSettings methods -------------------- *)
\* The settings object as one value: the fields the methods read and write.
SettingsState ==
    [pixels |-> pixels, eeprom |-> eeprom, wavelengths |-> wavelengths,
     wavenumbers |-> wavenumbers,
     raman_intensity_factors |-> raman_intensity_factors,
     lock_wavecal |-> lock_wavecal, log |-> log, raised |-> "none"]

\* a pixel space that counts from 1
PixelSpace_OneBased(pixelcount) == [i \in 1..pixelcount |-> i]

\* list(range(pixels)): the pixel-space fallback of line 197
PixelSpace(pixelcount) == [i \in 1..pixelcount |-> i - 1]

\* update_wavecal lines 202-207, once self.wavelengths is set.
\* excitation() is evaluated again after the legacy value has been rounded;
\* the log call reads wavenumbers[0], which raises on an empty list.
UpdateWavenumbers(st) ==
    LET st1 == [st EXCEPT !.log = @ \cup excitation_log(st.eeprom)]
    IN  IF ~has_excitation(st1.eeprom) THEN st1
        ELSE LET e2 == [st1.eeprom EXCEPT
                          !.excitation_nm = RoundTenths(excitation(st1.eeprom))]
                 wn == generate_wavenumbers(excitation(e2), st1.wavelengths.v)
             IN  [st1 EXCEPT !.eeprom = e2,
                             !.wavenumbers = Some(wn),
                             !.raised = IF Len(wn) = 0 THEN "IndexError"
                                        ELSE "none"]

\* update_wavecal lines 173-207: the wavecal is not locked
UpdateWavecalUnlocked(st, coeffs) ==
    LET cleared == [st EXCEPT !.wavelengths = Absent, !.wavenumbers = Absent]
    IN  IF st.pixels < 1
          THEN [cleared EXCEPT !.log = @ \cup
                  {[level |-> "error", msg |-> "no pixels defined"]}]
        ELSE
          LET e1 == IF coeffs.present
                      THEN [st.eeprom EXCEPT !.wavelength_coeffs = coeffs]
                      ELSE st.eeprom
              c  == e1.wavelength_coeffs
              s1 == [cleared EXCEPT !.eeprom = e1]
          IN  IF c.present /\ Len(c.v) > 0 /\ Len(c.v) < 4
                THEN [s1 EXCEPT !.raised = "IndexError"]
              ELSE UpdateWavenumbers(
                     [s1 EXCEPT !.wavelengths =
                        IF c.present /\ Len(c.v) > 0
                          THEN Some(generate_wavelengths(st.pixels,
                                      c.v[1], c.v[2], c.v[3], c.v[4]))
                          ELSE Some(PixelSpace(st.pixels))])

\* update_wavecal without the test of lock_wavecal
update_wavecal_IgnoreLock(st, coeffs) == UpdateWavecalUnlocked(st, coeffs)

\* update_wavecal(coeffs): lines 168-207
update_wavecal(st, coeffs) ==
    IF st.lock_wavecal THEN st
    ELSE UpdateWavecalUnlocked(st, coeffs)

RECURSIVE Pow(_, _)
\* math.pow(x, i) for integers, i >= 0; math.pow(0, 0) is 1
Pow(x, i) == IF i = 0 THEN 1 ELSE x * Pow(x, i - 1)

RECURSIVE Log10Factor(_, _, _)
\* lines 153-157: the sum of coeffs[i] * pixel^i for i from k on (0-based)
Log10Factor(coeffs, pixel, k) ==
    IF k >= Len(coeffs) THEN 0
    ELSE coeffs[k + 1] * Pow(pixel, k) + Log10Factor(coeffs, pixel, k + 1)

\* 10 ** e, kept as its exponent
Pow10(e) == [exp10 |-> e]

RECURSIVE RamanLoop(_, _, _, _)
\* lines 151-161: the loop over pixels; math.pow(10, e) raises beyond MaxExp10
RamanLoop(pixel, pixelcount, coeffs, factors) ==
    IF pixel >= pixelcount THEN [ok |-> TRUE, factors |-> factors]
    ELSE LET e == Log10Factor(coeffs, pixel, 0)
         IN  IF e > MaxExp10 THEN [ok |-> FALSE, factors |-> factors]
             ELSE RamanLoop(pixel + 1, pixelcount, coeffs,
                            Append(factors, Pow10(e)))

\* the try block of lines 149-165 whose except clause keeps what was computed
RamanTry_KeepPartial(pixelcount, coeffs) ==
    Some(RamanLoop(0, pixelcount, coeffs, << >>).factors)

\* lines 149-165: any exception leaves the factors None
RamanTry(pixelcount, coeffs) ==
    LET r == RamanLoop(0, pixelcount, coeffs, << >>)
    IN  IF r.ok THEN Some(r.factors) ELSE Absent

\* update_raman_intensity_factors: lines 140-166
update_raman_intensity_factors(st) ==
    LET e == st.eeprom
    IN  [st EXCEPT !.raman_intensity_factors =
          IF /\ has_raman_intensity_calibration(e)
             /\ 1 <= e.raman_intensity_calibration_format
             /\ e.raman_intensity_calibration_format < MAX_INTENSITY_TERMS
             /\ e.raman_intensity_coeffs.present
            THEN RamanTry(st.pixels, e.raman_intensity_coeffs.v)
            ELSE Absent]

\* update_from_json lines 72-75 on the merged EEPROM: an exception of
\* update_wavecal leaves update_raman_intensity_factors uncalled
Recalibrate(st) ==
    LET s1 == update_wavecal(st, Absent)
    IN  IF s1.raised # "none" THEN s1
        ELSE update_raman_intensity_factors(s1)

(* ------------------------- BLEDevice.__init__ ------------------------- *)
\* SpectrometerSettings.__init__: lines 32-63, on the EEPROM defaults
ConstructedSettings ==
    Recalibrate([pixels |-> DefaultPixels, eeprom |-> DefaultEeprom,
                 wavelengths |-> Absent, wavenumbers |-> Absent,
                 raman_intensity_factors |-> Absent, lock_wavecal |-> FALSE,
                 log |-> {}, raised |-> "none"])

NoOp == [op |-> "__init__", ret |-> 0]

InitSettings ==
    /\ wasatch_bus = NoBus
    /\ fpga_options = DefaultFpgaOptions
    /\ wavelengths = ConstructedSettings.wavelengths
    /\ wavenumbers = ConstructedSettings.wavenumbers
    /\ raman_intensity_factors = ConstructedSettings.raman_intensity_factors
    /\ lock_wavecal = FALSE
    /\ log = ConstructedSettings.log
    /\ raised = "none"
    /\ lastop = NoOp
    /\ nops = 0

InitBleWith(scripts) ==
    /\ integration_time_ms \in IntegrationTimes
    /\ script \in scripts
    /\ performing_acquire = FALSE
    /\ perfroming_acquire = "unset"
    /\ disconnect = FALSE
    /\ disconnect_event = FALSE
    /\ session_reading_count = 0
    /\ pc = [c \in Callers |-> "idle"]
    /\ ncalls = [c \in Callers |-> 0]
    /\ fut = [c \in Callers |-> PendingVal]
    /\ result = [c \in Callers |-> PendingVal]
    /\ closer = "idle"
    /\ nclose = 0
    /\ closefut = "none"
    /\ nsets = 0
    /\ ready = << >>
    /\ running = NoTask
    /\ waiting = {}
    /\ calls = << >>

InitBle == InitBleWith(Scripts)

\* The bytes the device holds for each (page, subpage): one byte each, two
\* in the last subpage. Page 0 starts with the pixel count, then the first
\* two wavelength coefficients; the last subpage holds the model and the
\* serial number; the other bytes are distinct markers.
DevEeprom(p, c1) ==
    [ps \in (0..(MAX_PAGES - 1)) \X (0..(SUBPAGE_COUNT - 1)) |->
        IF ps = <<0, 0>> THEN <<p>>
        ELSE IF ps[1] * SUBPAGE_COUNT + ps[2] = 1 THEN <<7>>
        ELSE IF ps[1] * SUBPAGE_COUNT + ps[2] = 2 THEN <<c1>>
        ELSE IF ps = <<MAX_PAGES - 1, SUBPAGE_COUNT - 1>>
          THEN <<10 + ps[1] * SUBPAGE_COUNT + ps[2],
                 20 + ps[1] * SUBPAGE_COUNT + ps[2]>>
        ELSE <<10 + ps[1] * SUBPAGE_COUNT + ps[2]>>]

DevEeproms == {DevEeprom(p, c1) : p \in PixelCounts, c1 \in {1, 2}}

RECURSIVE ConcatSubpages(_, _, _)
\* the bytes of page i from subpage j on, in subpage order
ConcatSubpages(d, i, j) ==
    IF j >= SUBPAGE_COUNT THEN << >>
    ELSE d[<<i, j>>] \o ConcatSubpages(d, i, j + 1)

\* one buffer per page, in page order
PagesOf(d) == [i \in 1..MAX_PAGES |-> ConcatSubpages(d, i - 1, 0)]

\* all page buffers joined
RECURSIVE Flatten(_)
Flatten(bufs) == IF Len(bufs) = 0 THEN << >> ELSE Head(bufs) \o Flatten(Tail(bufs))

\* EEPROM.read_eeprom(): the fields decoded from the buffers at their offsets
DecodedPixels(bufs) == Flatten(bufs)[1]
DecodedEeprom(e, bufs) ==
    [e EXCEPT !.wavelength_coeffs =
                  Some(<<Flatten(bufs)[2], Flatten(bufs)[3], 0, 0>>),
              !.model = ToString(Flatten(bufs)[Len(Flatten(bufs)) - 1]),
              !.serial_number = ToString(Flatten(bufs)[Len(Flatten(bufs))])]

\* line 38: the label __init__ gives the device
InitLabel == <<"BLE Device">>
\* line 63: f"{serial_number} ({model})"
Label(e) == <<e.serial_number, " (", e.model, ")">>

NoFuture == [state |-> "none", pages |-> << >>]
EeLocals(i, j, buf, pages, phase, resp) ==
    [i |-> i, j |-> j, buf |-> buf, pages |-> pages, phase |-> phase,
     resp |-> resp]

\* before connect()
InitUnconnected ==
    /\ pixels = DefaultPixels
    /\ eeprom = [ConstructedSettings.eeprom EXCEPT !.detector = DetBle]
    /\ connector = "idle"
    /\ connfut = NoFuture
    /\ ee = EeLocals(0, 0, << >>, << >>, "none", << >>)
    /\ dev_eeprom \in DevEeproms
    /\ dev_selected = <<0, 0>>
    /\ buffers = << >>
    /\ label = InitLabel

\* after connect() has returned
InitConnected ==
    /\ dev_eeprom \in {DevEeprom(p, 1) : p \in PixelCounts}
    /\ buffers = PagesOf(dev_eeprom)
    /\ pixels = DecodedPixels(buffers)
    /\ eeprom = DecodedEeprom([ConstructedSettings.eeprom
                                  EXCEPT !.detector = DetBle], buffers)
    /\ connector = "done"
    /\ connfut = [state |-> "done", pages |-> buffers]
    /\ ee = EeLocals(MAX_PAGES, 0, << >>, buffers, "done", << >>)
    /\ dev_selected = <<MAX_PAGES - 1, SUBPAGE_COUNT - 1>>
    /\ label = Label(eeprom)

\* The device after __init__ and connect(); calls holds the transport
\* calls issued since connect() returned.
Init ==
    /\ InitSettings
    /\ InitConnected
    /\ InitBle
    /\ backend = Devices(<< >>)

(* ------------------------ BLEDevice.acquire_data ---------------------- *)
\* line 93-94: the in-flight guard
AcquireGuard(c) ==
    /\ pc[c] = "idle"
    /\ ncalls[c] < MaxCalls
    /\ ncalls' = [ncalls EXCEPT ![c] = @ + 1]
    /\ IF performing_acquire
         THEN /\ result' = [result EXCEPT ![c] = TrueVal]
              /\ pc' = pc
         ELSE /\ result' = [result EXCEPT ![c] = PendingVal]
              /\ pc' = [pc EXCEPT ![c] = "l95"]
    /\ UNCHANGED <<busvars, devvars, connvars, setvars, performing_acquire, perfroming_acquire,
                   disconnect, disconnect_event, session_reading_count, fut,
                   closer, nclose, closefut, nsets, ready, running, waiting,
                   calls>>

\* acquire_data without the test of self.disconnect at line 95
AcquireDisconnectCheck_Unchecked(c) ==
    /\ pc[c] = "l95"
    /\ result' = result
    /\ pc' = [pc EXCEPT ![c] = "l97"]
    /\ UNCHANGED <<busvars, devvars, connvars, setvars, performing_acquire, perfroming_acquire,
                   disconnect, disconnect_event, session_reading_count, ncalls,
                   fut, closer, nclose, closefut, nsets, ready, running,
                   waiting, calls>>

\* line 95-96: the disconnect check; a bare return yields None
AcquireDisconnectCheck(c) ==
    /\ pc[c] = "l95"
    /\ IF disconnect
         THEN /\ result' = [result EXCEPT ![c] = NoneVal]
              /\ pc' = [pc EXCEPT ![c] = "idle"]
         ELSE /\ result' = result
              /\ pc' = [pc EXCEPT ![c] = "l97"]
    /\ UNCHANGED <<busvars, devvars, connvars, setvars, performing_acquire, perfroming_acquire,
                   disconnect, disconnect_event, session_reading_count, ncalls,
                   fut, closer, nclose, closefut, nsets, ready, running,
                   waiting, calls>>

\* line 97-98
AcquireCount(c) ==
    /\ pc[c] = "l97"
    /\ perfroming_acquire' = "True"
    /\ session_reading_count' = session_reading_count + 1
    /\ pc' = [pc EXCEPT ![c] = "l99"]
    /\ UNCHANGED <<busvars, devvars, connvars, setvars, performing_acquire, disconnect, disconnect_event,
                   ncalls, fut, result, closer, nclose, closefut, nsets, ready,
                   running, waiting, calls>>

\* line 99-100: run_coroutine_threadsafe(self.ble_acquire(), self.loop)
AcquireSubmit(c) ==
    /\ pc[c] = "l99"
    /\ ready' = Append(ready, Task("ble_acquire", c, 0))
    /\ fut' = [fut EXCEPT ![c] = PendingVal]
    /\ perfroming_acquire' = "False"
    /\ pc' = [pc EXCEPT ![c] = "l101"]
    /\ UNCHANGED <<busvars, devvars, connvars, setvars, performing_acquire, disconnect, disconnect_event,
                   session_reading_count, ncalls, result, closer, nclose,
                   closefut, nsets, running, waiting, calls>>

\* line 101-102: fut.result() blocks until the coroutine has finished
AcquireResult(c) ==
    /\ pc[c] = "l101"
    /\ fut[c] # PendingVal
    /\ result' = [result EXCEPT ![c] = fut[c]]
    /\ pc' = [pc EXCEPT ![c] = "idle"]
    /\ UNCHANGED <<busvars, devvars, connvars, setvars, performing_acquire, perfroming_acquire,
                   disconnect, disconnect_event, session_reading_count, ncalls,
                   fut, closer, nclose, closefut, nsets, ready, running,
                   waiting, calls>>

(* ---------------------- transport call records ---------------------- *)
WriteCall(uuid, data) == [op |-> "write", uuid |-> uuid, data |-> data]
ReadCall(uuid)        == [op |-> "read", uuid |-> uuid, data |-> << >>]
DisconnectCall        == [op |-> "disconnect", uuid |-> "", data |-> << >>]

\* int.to_bytes(2, byteorder='big'); raises OverflowError outside 0..65535
FitsTwoBytes(v) == v >= 0 /\ v <= 65535
\* the two bytes, low byte first
ToBytesLittle(v) == <<v % 256, v \div 256>>

ToBytesBig(v)   == <<v \div 256, v % 256>>

\* set_gain lines 85-87, for a gain given in tenths
GainWord(tenths) ==
    LET msb == tenths \div 10
        lsb == (((tenths % 10) * 256) \div 10) % 256
    IN  msb * 256 + lsb

(* ------------- BLEDevice.change_settings / init_lambdas --------------- *)
\* The lambda submits the coroutine and returns the future; change_settings
\* drops it and returns at once.  A setting without a lambda does nothing.
ChangeSettings(setting, value) ==
    /\ nsets < MaxSets
    /\ nsets' = nsets + 1
    /\ ready' = IF setting = "integration_time_ms"
                  THEN Append(ready, Task("set_integration_time_ms", 0, value))
                  ELSE IF setting = "detector_gain"
                  THEN Append(ready, Task("set_gain", 0, value))
                  ELSE ready
    /\ UNCHANGED <<busvars, devvars, connvars, setvars, performing_acquire, perfroming_acquire,
                   disconnect, disconnect_event, session_reading_count, pc,
                   ncalls, fut, result, closer, nclose, closefut, running,
                   waiting, calls>>

(* --------------------------- BLEDevice.close -------------------------- *)
\* close() whose first statement flips the flag
CloseSetFlag_Toggle ==
    /\ closer = "idle"
    /\ nclose < MaxClose
    /\ nclose' = nclose + 1
    /\ disconnect' = ~disconnect
    /\ closer' = "l264"
    /\ UNCHANGED <<busvars, devvars, connvars, setvars, performing_acquire, perfroming_acquire,
                   disconnect_event, session_reading_count, pc, ncalls, fut,
                   result, closefut, nsets, ready, running, waiting, calls>>

\* line 263
CloseSetFlag ==
    /\ closer = "idle"
    /\ nclose < MaxClose
    /\ nclose' = nclose + 1
    /\ disconnect' = TRUE
    /\ closer' = "l264"
    /\ UNCHANGED <<busvars, devvars, connvars, setvars, performing_acquire, perfroming_acquire,
                   disconnect_event, session_reading_count, pc, ncalls, fut,
                   result, closefut, nsets, ready, running, waiting, calls>>

\* line 264
CloseSetEvent ==
    /\ closer = "l264"
    /\ disconnect_event' = TRUE
    /\ closer' = "l265"
    /\ UNCHANGED <<busvars, devvars, connvars, setvars, performing_acquire, perfroming_acquire,
                   disconnect, session_reading_count, pc, ncalls, fut, result,
                   nclose, closefut, nsets, ready, running, waiting, calls>>

\* line 265
CloseSubmit ==
    /\ closer = "l265"
    /\ ready' = Append(ready, Task("disconnect_spec", 0, 0))
    /\ closefut' = "pending"
    /\ closer' = "l266"
    /\ UNCHANGED <<busvars, devvars, connvars, setvars, performing_acquire, perfroming_acquire,
                   disconnect, disconnect_event, session_reading_count, pc,
                   ncalls, fut, result, nclose, nsets, running, waiting,
                   calls>>

\* line 266
CloseResult ==
    /\ closer = "l266"
    /\ closefut = "done"
    /\ closer' = "idle"
    /\ UNCHANGED <<busvars, devvars, connvars, setvars, performing_acquire, perfroming_acquire,
                   disconnect, disconnect_event, session_reading_count, pc,
                   ncalls, fut, result, nclose, closefut, nsets, ready,
                   running, waiting, calls>>

(* --------------------------- the asyncio loop ------------------------- *)
\* The loop takes the next ready coroutine once the running one has
\* finished or suspended.
LoopPick ==
    /\ running = NoTask
    /\ ready # << >>
    /\ running' = Head(ready)
    /\ ready' = Tail(ready)
    /\ UNCHANGED <<busvars, devvars, connvars, setvars, performing_acquire, perfroming_acquire,
                   disconnect, disconnect_event, session_reading_count, pc,
                   ncalls, fut, result, closer, nclose, closefut, nsets,
                   waiting, calls>>

\* A transport call a coroutine awaits completes; the coroutine is ready.
TransportDone(t) ==
    /\ t \in waiting
    /\ waiting' = waiting \ {t}
    /\ ready' = Append(ready, [t EXCEPT !.pc = "resumed"])
    /\ UNCHANGED <<busvars, devvars, connvars, setvars, performing_acquire, perfroming_acquire,
                   disconnect, disconnect_event, session_reading_count, pc,
                   ncalls, fut, result, closer, nclose, closefut, nsets,
                   running, calls>>

\* The handshake a coroutine awaits fails: client.connect() raises, and the
\* coroutine is resumed with the exception.
TransportFail(t) ==
    /\ t \in waiting
    /\ t.kind = "connect_spec"
    /\ waiting' = waiting \ {t}
    /\ ready' = Append(ready, [t EXCEPT !.pc = "raised"])
    /\ UNCHANGED <<busvars, devvars, connvars, setvars, performing_acquire, perfroming_acquire,
                   disconnect, disconnect_event, session_reading_count, pc,
                   ncalls, fut, result, closer, nclose, closefut, nsets,
                   running, calls>>

(* ------------------------ BLEDevice.ble_acquire ----------------------- *)
\* line 105-106
BleAcquireCheck ==
    /\ running.kind = "ble_acquire"
    /\ running.pc = "start"
    /\ IF disconnect_event
         THEN /\ fut' = [fut EXCEPT ![running.owner] = NoneVal]
              /\ running' = NoTask
         ELSE /\ fut' = fut
              /\ running' = [running EXCEPT !.pc = "l107"]
    /\ UNCHANGED <<busvars, devvars, connvars, setvars, performing_acquire, perfroming_acquire,
                   disconnect, disconnect_event, session_reading_count, pc,
                   ncalls, result, closer, nclose, closefut, nsets, ready,
                   waiting, calls>>

\* line 107: return True; the statements after it are never executed
BleAcquireReturn ==
    /\ running.kind = "ble_acquire"
    /\ running.pc = "l107"
    /\ fut' = [fut EXCEPT ![running.owner] = TrueVal]
    /\ running' = NoTask
    /\ UNCHANGED <<busvars, devvars, connvars, setvars, performing_acquire, perfroming_acquire,
                   disconnect, disconnect_event, session_reading_count, pc,
                   ncalls, result, closer, nclose, closefut, nsets, ready,
                   waiting, calls>>

(* ----------- set_integration_time_ms / set_gain coroutines ------------ *)
\* lines 75-79: an exception of to_bytes is caught and nothing is written
SetIntegrationTimeWrite ==
    /\ running.kind = "set_integration_time_ms"
    /\ running.pc = "start"
    /\ IF FitsTwoBytes(running.arg)
         THEN /\ calls' = Append(calls, WriteCall(SET_INT_UUID, ToBytesBig(running.arg)))
              /\ waiting' = waiting \cup {running}
         ELSE /\ calls' = calls
              /\ waiting' = waiting
    /\ running' = NoTask
    /\ UNCHANGED <<busvars, devvars, connvars, setvars, performing_acquire, perfroming_acquire,
                   disconnect, disconnect_event, session_reading_count, pc,
                   ncalls, fut, result, closer, nclose, closefut, nsets,
                   ready>>

\* lines 84-90
SetGainWrite ==
    /\ running.kind = "set_gain"
    /\ running.pc = "start"
    /\ IF FitsTwoBytes(GainWord(running.arg))
         THEN /\ calls' = Append(calls, WriteCall(SET_GAIN_UUID, ToBytesBig(GainWord(running.arg))))
              /\ waiting' = waiting \cup {running}
         ELSE /\ calls' = calls
              /\ waiting' = waiting
    /\ running' = NoTask
    /\ UNCHANGED <<busvars, devvars, connvars, setvars, performing_acquire, perfroming_acquire,
                   disconnect, disconnect_event, session_reading_count, pc,
                   ncalls, fut, result, closer, nclose, closefut, nsets,
                   ready>>

\* the write has completed; the coroutine returns
SettingDone ==
    /\ running.kind \in {"set_integration_time_ms", "set_gain"}
    /\ running.pc = "resumed"
    /\ running' = NoTask
    /\ UNCHANGED <<busvars, devvars, connvars, setvars, performing_acquire, perfroming_acquire,
                   disconnect, disconnect_event, session_reading_count, pc,
                   ncalls, fut, result, closer, nclose, closefut, nsets,
                   ready, waiting, calls>>

(* ----------------------- BLEDevice.disconnect_spec -------------------- *)
\* line 269: await self.client.disconnect()
DisconnectSpecCall ==
    /\ running.kind = "disconnect_spec"
    /\ running.pc = "start"
    /\ calls' = Append(calls, DisconnectCall)
    /\ waiting' = waiting \cup {running}
    /\ running' = NoTask
    /\ UNCHANGED <<busvars, devvars, connvars, setvars, performing_acquire, perfroming_acquire,
                   disconnect, disconnect_event, session_reading_count, pc,
                   ncalls, fut, result, closer, nclose, closefut, nsets,
                   ready>>

DisconnectSpecDone ==
    /\ running.kind = "disconnect_spec"
    /\ running.pc = "resumed"
    /\ closefut' = "done"
    /\ running' = NoTask
    /\ UNCHANGED <<busvars, devvars, connvars, setvars, performing_acquire, perfroming_acquire,
                   disconnect, disconnect_event, session_reading_count, pc,
                   ncalls, fut, result, closer, nclose, nsets, ready,
                   waiting, calls>>

(* --------------------------- BLEDevice.connect ------------------------ *)
ConnectCall == [op |-> "connect", uuid |-> "", data |-> << >>]

\* line 57: run_coroutine_threadsafe(self.connect_spec(), self.loop)
ConnectSubmitSpec ==
    /\ connector = "idle"
    /\ ready' = Append(ready, Task("connect_spec", 0, 0))
    /\ connfut' = [state |-> "pending", pages |-> << >>]
    /\ connector' = "l59"
    /\ UNCHANGED <<busvars, devvars, setvars, blevars, nsets, running, waiting, calls,
                   ee, dev_eeprom, dev_selected, buffers,
                   label>>

\* line 59-60: fut.result(), then the EEPROM read is submitted
ConnectSubmitEeprom ==
    /\ connector = "l59"
    /\ connfut.state = "done"
    /\ ready' = Append(ready, Task("get_eeprom", 0, 0))
    /\ connfut' = [state |-> "pending", pages |-> << >>]
    /\ connector' = "l61"
    /\ UNCHANGED <<busvars, devvars, setvars, blevars, nsets, running, waiting, calls,
                   ee, dev_eeprom, dev_selected, buffers,
                   label>>

\* line 61: self.settings.eeprom.buffers = fut.result()
ConnectStoreBuffers ==
    /\ connector = "l61"
    /\ connfut.state = "done"
    /\ buffers' = connfut.pages
    /\ connector' = "l62"
    /\ UNCHANGED <<busvars, devvars, setvars, blevars, nsets, ready, running, waiting,
                   calls, connfut, ee, dev_eeprom, dev_selected,
                   label>>

\* line 59: fut.result() re-raises the exception of connect_spec; connect()
\* goes on as if the handshake had succeeded
ConnectRaise_Swallowed ==
    /\ connector = "l59"
    /\ connfut.state = "raised"
    /\ ready' = Append(ready, Task("get_eeprom", 0, 0))
    /\ connfut' = [state |-> "pending", pages |-> << >>]
    /\ connector' = "l61"
    /\ UNCHANGED <<busvars, devvars, setvars, blevars, nsets, running, waiting, calls,
                   ee, dev_eeprom, dev_selected, buffers, label>>

\* line 59: fut.result() re-raises the exception of connect_spec, which
\* nothing in connect() catches: the call ends with it
ConnectRaise ==
    /\ connector = "l59"
    /\ connfut.state = "raised"
    /\ connector' = "raised"
    /\ UNCHANGED <<busvars, devvars, setvars, blevars, nsets, ready, running, waiting,
                   calls, connfut, ee, dev_eeprom, dev_selected, buffers,
                   label>>

\* line 62: read_eeprom() decodes the buffers into the EEPROM fields
ConnectReadEeprom ==
    /\ connector = "l62"
    /\ pixels' = DecodedPixels(buffers)
    /\ eeprom' = DecodedEeprom(eeprom, buffers)
    /\ connector' = "l63"
    /\ UNCHANGED <<busvars, integration_time_ms, script, fpga_options, wavelengths,
                   wavenumbers, raman_intensity_factors, lock_wavecal, log,
                   raised, lastop, nops, blevars, nsets, ready, running,
                   waiting, calls, connfut, ee, dev_eeprom, dev_selected,
                   buffers, label>>

\* line 63: the label is set from the decoded fields
ConnectLabel ==
    /\ connector = "l63"
    /\ label' = Label(eeprom)
    /\ connector' = "l64"
    /\ UNCHANGED <<busvars, devvars, setvars, blevars, nsets, ready, running, waiting,
                   calls, connfut, ee, dev_eeprom, dev_selected, buffers>>

\* line 64: return True
ConnectReturn ==
    /\ connector = "l64"
    /\ connector' = "done"
    /\ UNCHANGED <<busvars, devvars, setvars, blevars, nsets, ready, running, waiting,
                   calls, connfut, ee, dev_eeprom, dev_selected, buffers,
                   label>>

(* ------------------------ BLEDevice.connect_spec ---------------------- *)
\* line 214: await self.client.connect()
ConnectSpecCall ==
    /\ running.kind = "connect_spec"
    /\ running.pc = "start"
    /\ calls' = Append(calls, ConnectCall)
    /\ waiting' = waiting \cup {running}
    /\ running' = NoTask
    /\ UNCHANGED <<busvars, devvars, setvars, connvars, blevars, nsets, ready>>

\* line 214-215: the handshake has completed; the coroutine returns
ConnectSpecDone ==
    /\ running.kind = "connect_spec"
    /\ running.pc = "resumed"
    /\ connfut' = [state |-> "done", pages |-> << >>]
    /\ running' = NoTask
    /\ UNCHANGED <<busvars, devvars, setvars, blevars, nsets, ready, waiting, calls,
                   connector, ee, dev_eeprom, dev_selected, buffers,
                   label>>

\* line 214: client.connect() raised; the exception leaves the coroutine
\* and is held by its future
ConnectSpecRaise ==
    /\ running.kind = "connect_spec"
    /\ running.pc = "raised"
    /\ connfut' = [state |-> "raised", pages |-> << >>]
    /\ running' = NoTask
    /\ UNCHANGED <<busvars, devvars, setvars, blevars, nsets, ready, waiting, calls,
                   connector, ee, dev_eeprom, dev_selected, buffers, label>>

(* ------------------------- BLEDevice.get_eeprom ----------------------- *)
\* get_eeprom whose selector carries (subpage, page)
GetEepromSelect_Swapped ==
    /\ running.kind = "get_eeprom"
    /\ running.pc = "start"
    /\ ee.i < MAX_PAGES
    /\ calls' = Append(calls, WriteCall(SELECT_EEPROM_PAGE_UUID, <<ee.j, ee.i>>))
    /\ dev_selected' = <<ee.j, ee.i>>
    /\ ee' = [ee EXCEPT !.phase = "select"]
    /\ waiting' = waiting \cup {running}
    /\ running' = NoTask
    /\ UNCHANGED <<busvars, devvars, setvars, blevars, nsets, ready, connector,
                   connfut, dev_eeprom, buffers,
                   label>>

\* line 219-226: the selector write of page i, subpage j
GetEepromSelect ==
    /\ running.kind = "get_eeprom"
    /\ running.pc = "start"
    /\ ee.i < MAX_PAGES
    /\ calls' = Append(calls, WriteCall(SELECT_EEPROM_PAGE_UUID, <<ee.i, ee.j>>))
    /\ dev_selected' = <<ee.i, ee.j>>
    /\ ee' = [ee EXCEPT !.phase = "select"]
    /\ waiting' = waiting \cup {running}
    /\ running' = NoTask
    /\ UNCHANGED <<busvars, devvars, setvars, blevars, nsets, ready, connector,
                   connfut, dev_eeprom, buffers,
                   label>>

\* line 228: the read; the device answers with the selected subpage
GetEepromRead ==
    /\ running.kind = "get_eeprom"
    /\ running.pc = "resumed"
    /\ ee.phase = "select"
    /\ calls' = Append(calls, ReadCall(READ_EEPROM_UUID))
    /\ ee' = [ee EXCEPT !.phase = "read", !.resp = dev_eeprom[dev_selected]]
    /\ waiting' = waiting \cup {running}
    /\ running' = NoTask
    /\ UNCHANGED <<busvars, devvars, setvars, blevars, nsets, ready, connector,
                   connfut, dev_eeprom, dev_selected, buffers,
                   label>>

\* line 229-231: the response is appended to the page buffer; after the
\* last subpage the buffer is appended to pages
GetEepromAppend ==
    /\ running.kind = "get_eeprom"
    /\ running.pc = "resumed"
    /\ ee.phase = "read"
    /\ ee' = IF ee.j + 1 < SUBPAGE_COUNT
               THEN EeLocals(ee.i, ee.j + 1, ee.buf \o ee.resp, ee.pages,
                             "loop", << >>)
               ELSE EeLocals(ee.i + 1, 0, << >>,
                             Append(ee.pages, ee.buf \o ee.resp), "loop", << >>)
    /\ running' = [running EXCEPT !.pc = "start"]
    /\ UNCHANGED <<busvars, devvars, setvars, blevars, nsets, ready, waiting, calls,
                   connector, connfut, dev_eeprom, dev_selected, buffers,
                   label>>

\* line 232: return pages
GetEepromReturn ==
    /\ running.kind = "get_eeprom"
    /\ running.pc = "start"
    /\ ee.i >= MAX_PAGES
    /\ connfut' = [state |-> "done", pages |-> ee.pages]
    /\ ee' = [ee EXCEPT !.phase = "done"]
    /\ running' = NoTask
    /\ UNCHANGED <<busvars, devvars, setvars, blevars, nsets, ready, waiting, calls,
                   connector, dev_eeprom, dev_selected, buffers,
                   label>>

(* ----------------- calls on the SpectrometerSettings ------------------ *)
\* the EEPROM object with its pixel count, as the attribute dictionary
EepromObject == eeprom @@ ("active_pixels_horizontal" :> pixels)

\* the settings fields take the values of st
Assign(st) ==
    /\ pixels' = st.pixels
    /\ eeprom' = st.eeprom
    /\ wavelengths' = st.wavelengths
    /\ wavenumbers' = st.wavenumbers
    /\ raman_intensity_factors' = st.raman_intensity_factors
    /\ log' = st.log
    /\ raised' = st.raised

\* one more call is made on the settings object
Called(op, ret) ==
    /\ nops < MaxOps
    /\ nops' = nops + 1
    /\ lastop' = [op |-> op, ret |-> ret]

\* update_from_json: lines 67-75
UpdateFromJson(doc) ==
    LET merged == update_obj_from_dict(EepromObject, doc.eeprom)
        st0 == [SettingsState EXCEPT !.log = {}]
        st1 == [st0 EXCEPT !.pixels = merged["active_pixels_horizontal"],
                           !.eeprom = [k \in DOMAIN eeprom |-> merged[k]]]
    IN  /\ fpga_options' = IF doc.has_fpga
                             THEN update_obj_from_dict(fpga_options, doc.fpga)
                             ELSE fpga_options
        /\ Assign(IF doc.has_eeprom THEN Recalibrate(st1) ELSE st0)
        /\ Called("update_from_json", 0)
        /\ UNCHANGED <<busvars, integration_time_ms, script, lock_wavecal, connvars,
                       blevars, nsets, ready, running, waiting, calls>>

\* a direct call of update_wavecal(coeffs)
UpdateWavecalCall(coeffs) ==
    /\ Assign(update_wavecal([SettingsState EXCEPT !.log = {}], coeffs))
    /\ Called("update_wavecal", 0)
    /\ UNCHANGED <<busvars, integration_time_ms, script, fpga_options, lock_wavecal,
                   connvars, blevars, nsets, ready, running, waiting, calls>>

\* a direct call of update_raman_intensity_factors()
UpdateRamanCall ==
    /\ Assign(update_raman_intensity_factors([SettingsState EXCEPT !.log = {}]))
    /\ Called("update_raman_intensity_factors", 0)
    /\ UNCHANGED <<busvars, integration_time_ms, script, fpga_options, lock_wavecal,
                   connvars, blevars, nsets, ready, running, waiting, calls>>

\* the owner sets or clears settings.lock_wavecal (line 60 declares it)
SetLockWavecal(b) ==
    /\ lock_wavecal # b
    /\ lock_wavecal' = b
    /\ Called("lock_wavecal", 0)
    /\ log' = {}
    /\ raised' = "none"
    /\ UNCHANGED <<busvars, devvars, eeprom, fpga_options, wavelengths, wavenumbers,
                   raman_intensity_factors, connvars, blevars, nsets, ready,
                   running, waiting, calls>>

\* a call of excitation(): lines 84-100
ExcitationCall ==
    /\ Called("excitation", excitation(eeprom))
    /\ log' = excitation_log(eeprom)
    /\ raised' = "none"
    /\ UNCHANGED <<busvars, devvars, eeprom, fpga_options, wavelengths, wavenumbers,
                   raman_intensity_factors, lock_wavecal, connvars, blevars,
                   nsets, ready, running, waiting, calls>>

\* a call of default_detector_setpoint_degC(): lines 110-134
DefaultDetectorSetpointCall ==
    /\ Called("default_detector_setpoint_degC",
              default_detector_setpoint_degC(eeprom))
    /\ log' = IF default_detector_setpoint_degC(eeprom).present THEN {}
              ELSE {[level |-> "error", msg |-> "unknown detector"]}
    /\ raised' = "none"
    /\ UNCHANGED <<busvars, devvars, eeprom, fpga_options, wavelengths, wavenumbers,
                   raman_intensity_factors, lock_wavecal, connvars, blevars,
                   nsets, ready, running, waiting, calls>>

(* ----------------------------- WasatchBus ----------------------------- *)
\* USBBus.update() that warns whenever the backend is missing
USBBusUpdate_AlwaysWarn(bus, b) ==
    [bus EXCEPT
        !.usb_ret = IF b.kind = "devices" THEN b.ids ELSE << >>,
        !.warned = IF b.kind = "missing" THEN @ + 1 ELSE @,
        !.nmissing = IF b.kind = "missing" THEN @ + 1 ELSE @]

\* USBBus.update(): lines 67-85, meeting backend outcome b. usb_ret is the
\* list returned, warned counts the "No libusb backend" warnings, nmissing
\* the calls that met a missing backend.
USBBusUpdate(bus, b) ==
    [bus EXCEPT
        !.usb_ret = IF b.kind = "devices" THEN b.ids ELSE << >>,
        !.warned = IF b.kind = "missing" /\ ~bus.backend_error_raised
                     THEN @ + 1 ELSE @,
        !.backend_error_raised = IF b.kind = "missing" THEN TRUE ELSE @,
        !.nmissing = IF b.kind = "missing" THEN @ + 1 ELSE @]

\* WasatchBus.update() that extends the list it already has
BusUpdate_Accumulate(bus, b) ==
    LET u == USBBusUpdate(bus, b)
    IN  [u EXCEPT !.device_ids = bus.device_ids \o u.usb_ret]

\* WasatchBus.update(): lines 39-46, on a bus whose sub-bus is the USB bus
BusUpdate(bus, b) ==
    LET u == USBBusUpdate(bus, b)
    IN  [u EXCEPT !.device_ids = << >> \o u.usb_ret]

\* WasatchBus(monitor_dir): lines 21-36. With a monitor directory FileBus()
\* is constructed, whose line 96 names the undefined B: NameError. Otherwise
\* USBBus() enumerates once itself (line 63) and update() once more (line 36).
WasatchBusInit(monitor_dir) ==
    /\ wasatch_bus.state = "none"
    /\ wasatch_bus' =
          IF monitor_dir # ""
            THEN [NoBus EXCEPT !.state = "raised", !.raised = "NameError",
                               !.kind = "file"]
            ELSE BusUpdate(
                   USBBusUpdate([NoBus EXCEPT !.state = "ok", !.kind = "usb"],
                                backend),
                   backend)
    /\ UNCHANGED <<backend, devvars, connvars, setvars, blevars, nsets, ready,
                   running, waiting, calls>>

\* a call of WasatchBus.update()
WasatchBusUpdate ==
    /\ wasatch_bus.state = "ok"
    /\ wasatch_bus.nupdates < MaxBusUpdates
    /\ wasatch_bus' = [BusUpdate(wasatch_bus, backend)
                         EXCEPT !.nupdates = @ + 1]
    /\ UNCHANGED <<backend, devvars, connvars, setvars, blevars, nsets, ready,
                   running, waiting, calls>>

\* devices are plugged or unplugged, the backend appears or goes
BackendChange(b) ==
    /\ b # backend
    /\ backend' = b
    /\ UNCHANGED <<wasatch_bus, devvars, connvars, setvars, blevars, nsets,
                   ready, running, waiting, calls>>

(* ---------------------------- specification --------------------------- *)
Next ==
    \/ \E c \in Callers : AcquireGuard(c)
    \/ \E c \in Callers : AcquireDisconnectCheck(c)
    \/ \E c \in Callers : AcquireCount(c)
    \/ \E c \in Callers : AcquireSubmit(c)
    \/ \E c \in Callers : AcquireResult(c)
    \/ \E sv \in SettingCalls : ChangeSettings(sv[1], sv[2])
    \/ CloseSetFlag
    \/ CloseSetEvent
    \/ CloseSubmit
    \/ CloseResult
    \/ LoopPick
    \/ \E t \in waiting : TransportDone(t)
    \/ BleAcquireCheck
    \/ BleAcquireReturn
    \/ SetIntegrationTimeWrite
    \/ SetGainWrite
    \/ SettingDone
    \/ DisconnectSpecCall
    \/ DisconnectSpecDone

Spec == Init /\ [][Next]_vars

\* connect() on a freshly constructed device, while settings may be written
InitConnect ==
    /\ InitSettings
    /\ InitUnconnected
    /\ InitBle
    /\ backend = Devices(<< >>)

NextConnect ==
    \/ ConnectSubmitSpec
    \/ ConnectSubmitEeprom
    \/ ConnectStoreBuffers
    \/ ConnectReadEeprom
    \/ ConnectLabel
    \/ ConnectReturn
    \/ ConnectRaise
    \/ ConnectSpecCall
    \/ ConnectSpecDone
    \/ ConnectSpecRaise
    \/ GetEepromSelect
    \/ GetEepromRead
    \/ GetEepromAppend
    \/ GetEepromReturn
    \/ LoopPick
    \/ \E t \in waiting : TransportDone(t)
    \/ \E t \in waiting : TransportFail(t)
    \/ \E sv \in SettingCalls : ChangeSettings(sv[1], sv[2])
    \/ SetIntegrationTimeWrite
    \/ SetGainWrite
    \/ SettingDone

SpecConnect == InitConnect /\ [][NextConnect]_vars

(* ------------------ response validation and decoding ------------------ *)
\* line 155-156: the length test of a response
InvalidLength(r) == Len(r) < header_len \/ Len(r) % 2 # 0

\* line 165: firstPixel is a big-endian UInt16
FirstPixel(r) == r[1] * 256 + r[2]

\* line 166: the NACK test
IsNack(r) == FirstPixel(r) > 2048 \/ FirstPixel(r) < 0

\* line 171-178: pixel intensities are little-endian UInt16
PixelsInPacket(r) == (Len(r) - header_len) \div 2
Intensity(r, i)   == r[header_len + 2 * i] * 256 + r[header_len + 2 * i - 1]

(* ------------------------------ observers ------------------------------ *)
\* caller c's acquire_data call has returned
Returned(c) == pc[c] = "idle" /\ ncalls[c] > 0

\* number of transport calls of one kind issued so far
CountCalls(op, uuid) ==
    Cardinality({i \in 1..Len(calls) : calls[i].op = op /\ calls[i].uuid = uuid})

PacketRequests == CountCalls("write", SPECTRUM_PIXELS_UUID)

\* the device rejects every response it has ready
RejectsAll ==
    \A i \in 1..Len(script) : InvalidLength(script[i]) \/ IsNack(script[i])

\* a wait of ms milliseconds was handed to the sleep primitive
Slept(ms) ==
    \E i \in 1..Len(calls) : calls[i].op = "sleep" /\ calls[i].data = <<ms>>

\* number of transport calls on the spectrum characteristics
SpectrumCalls ==
    CountCalls("write", DEVICE_ACQUIRE_UUID)
    + CountCalls("write", SPECTRUM_PIXELS_UUID)
    + CountCalls("read", READ_SPECTRUM_UUID)

(* ------------------------------- claims -------------------------------- *)

\* C1: an acquisition request returns either a reading whose spectrum has
\* exactly P entries or an explicit failure value (None); it never returns
\* anything else, in particular no placeholder.
C1_ReadingOrFailure ==
    \A c \in Callers :
        Returned(c) =>
            \/ result[c] = NoneVal
            \/ (result[c].kind = "Reading" /\ Len(result[c].spectrum) = pixels)

\* C2: the retry count never exceeds 4 and the 5th rejected response ends the
\* acquisition in Failed: an acquisition against a device that rejects every
\* one of its (more than MAX_RETRIES) responses returns failure, after at
\* most MAX_RETRIES + 1 packet requests.
C2_RetryExhaustedFails ==
    \A c \in Callers :
        (Returned(c) /\ RejectsAll /\ Len(script) > MAX_RETRIES) =>
            /\ result[c] = NoneVal
            /\ PacketRequests <= (MAX_RETRIES + 1) * (ncalls[1] + ncalls[2])

\* C3: a response of odd length or shorter than the header is never accepted
\* and always causes a retry before the next request: an acquisition whose
\* first response is such a response does not return a non-failure result
\* without having sent a second packet request.
C3_MalformedAlwaysRetried ==
    \A c \in Callers :
        (Returned(c) /\ InvalidLength(script[1]) /\ result[c] # NoneVal) =>
            PacketRequests >= 2

\* C4: a well-formed response whose first-pixel index is negative or above
\* the maximum valid pixel index (P - 1) is never accepted and always causes
\* a retry: an acquisition whose first response is such a response does not
\* return a non-failure result without having sent a second packet request.
C4_OutOfRangeAlwaysRetried ==
    \A c \in Callers :
        ( /\ Returned(c)
          /\ ~InvalidLength(script[1])
          /\ (FirstPixel(script[1]) < 0 \/ FirstPixel(script[1]) > pixels - 1)
          /\ result[c] # NoneVal ) =>
            PacketRequests >= 2

\* C5: the backoff wait before retry 1 is integration_time_ms * 6
\* milliseconds: an acquisition whose first response was rejected and that
\* went on to return a non-failure result has waited that long.
C5_FirstRetryBackoff ==
    \A c \in Callers :
        ( /\ Returned(c)
          /\ (InvalidLength(script[1]) \/ IsNack(script[1]))
          /\ result[c] # NoneVal ) =>
            Slept(integration_time_ms * THROWAWAY_SPECTRA)

\* C6: for a completed spectrum of length P with assembled values s, the
\* returned spectrum r has r[0..3] = s[4] and r[P-1] = s[P-2], every other
\* index unchanged (indices here are 1-based: r[1..4] = s[5], r[P] = s[P-1]).
C6_EdgePixelFixup ==
    \A c \in Callers :
        ( /\ Returned(c)
          /\ result[c] # NoneVal
          /\ pixels >= 5
          /\ ~InvalidLength(script[1])
          /\ FirstPixel(script[1]) = 0
          /\ PixelsInPacket(script[1]) >= pixels ) =>
            /\ result[c].kind = "Reading"
            /\ result[c].spectrum =
                 [i \in 1..pixels |->
                    IF i <= 4 THEN Intensity(script[1], 5)
                    ELSE IF i = pixels THEN Intensity(script[1], pixels - 1)
                    ELSE Intensity(script[1], i)]

\* C7: at most one acquisition exchange is in flight: an acquire_data call
\* made while another call has submitted its exchange and not yet received
\* the result returns True at once, submitting no coroutine.
C7_SecondCallSkipsExchange ==
    [][ \A c \in Callers :
          ( /\ ncalls'[c] = ncalls[c] + 1
            /\ \E d \in Callers \ {c} : pc[d] = "l101" ) =>
              /\ pc'[c] = "idle"
              /\ result'[c] = TrueVal
              /\ ready' = ready ]_vars

\* C8: once the disconnect signal is raised while an acquisition is in
\* progress (its coroutine submitted and not finished), the acquisition
\* issues no further spectrum transport call and returns failure.
C8_DisconnectAbortsAcquisition ==
    [][ \A c \in Callers :
          (pc[c] = "l101" /\ fut[c] = PendingVal /\ disconnect_event) =>
              /\ fut'[c] \in {PendingVal, NoneVal}
              /\ SpectrumCalls' = SpectrumCalls ]_vars

\* C9: after close() has been called, every later acquire_data call returns
\* a failure value (None), never success or a reading, and causes no
\* transport call and no coroutine; the disconnect flag stays set.
C9_ClosedDeviceFailsFast ==
    [][ \A c \in Callers :
          ( /\ disconnect
            /\ pc[c] \in {"idle", "l95"}
            /\ (pc'[c] # pc[c] \/ ncalls'[c] # ncalls[c]) ) =>
              /\ disconnect'
              /\ pc'[c] \in {"idle", "l95"}
              /\ (pc'[c] = "idle" => result'[c] = NoneVal)
              /\ calls' = calls
              /\ ready' = ready ]_vars

\* C9 witness: close() has returned and an acquire_data call has come back
\* with None from the disconnect check, nothing having been counted.
C9_Witness ==
    /\ closer = "idle" /\ nclose = 1 /\ closefut = "done"
    /\ disconnect /\ disconnect_event
    /\ session_reading_count = 0
    /\ \E c \in Callers : Returned(c) /\ result[c] = NoneVal

\* A SpectrometerSettings object from its construction on
InitSettingsOnly ==
    /\ InitSettings
    /\ InitUnconnected
    /\ InitBle
    /\ script = <<RespSix>>
    /\ dev_eeprom = DevEeprom(1, 1)
    /\ backend = Devices(<< >>)

NextSettings ==
    \/ \E doc \in Docs : UpdateFromJson(doc)
    \/ \E coeffs \in WavecalArgs : UpdateWavecalCall(coeffs)
    \/ UpdateRamanCall
    \/ \E b \in BOOLEAN : SetLockWavecal(b)
    \/ ExcitationCall

SpecSettings == InitSettingsOnly /\ [][NextSettings]_vars

(* ------------------------------- claims -------------------------------- *)

\* the transport calls on the EEPROM characteristics, in order
IsEepromCall(c) == c.uuid \in {SELECT_EEPROM_PAGE_UUID, READ_EEPROM_UUID}
EepromCalls == SelectSeq(calls, IsEepromCall)

\* selector write then read for every (page, subpage), page-major
ExpectedEepromCalls ==
    [k \in 1..(2 * MAX_PAGES * SUBPAGE_COUNT) |->
        LET n == (k - 1) \div 2
        IN  IF k % 2 = 1
              THEN WriteCall(SELECT_EEPROM_PAGE_UUID,
                             <<n \div SUBPAGE_COUNT, n % SUBPAGE_COUNT>>)
              ELSE ReadCall(READ_EEPROM_UUID)]

IsPrefix(a, b) == Len(a) <= Len(b) /\ a = SubSeq(b, 1, Len(a))

\* C11: the EEPROM read visits every (page, subpage) exactly once in
\* page-major, subpage-minor order, each with one 2-byte selector write
\* followed by one read, and returns one buffer per page, in page order, that
\* is the concatenation of that page's subpage reads.
C11_EepromReadOrder ==
    /\ IsPrefix(EepromCalls, ExpectedEepromCalls)
    /\ ee.phase = "done" =>
          /\ EepromCalls = ExpectedEepromCalls
          /\ connfut.state = "done" => connfut.pages = PagesOf(dev_eeprom)
    /\ connector \in {"l62", "l63", "l64", "done"} =>
          buffers = PagesOf(dev_eeprom)

\* C11 witness: connect() has returned with the buffers of a whole read
C11_Witness ==
    /\ connector = "done"
    /\ Len(buffers) = MAX_PAGES
    /\ Len(EepromCalls) = 2 * MAX_PAGES * SUBPAGE_COUNT
    /\ buffers = PagesOf(dev_eeprom)

(* ---------------------- wavelength calibration ------------------------ *)
\* a step that runs the recalibration calls on the settings object
IsRecalibration ==
    \/ \E doc \in Docs : doc.has_eeprom /\ UpdateFromJson(doc)
    \/ \E coeffs \in WavecalArgs : UpdateWavecalCall(coeffs)

\* c0 + c1 x + c2 x^2 + c3 x^3
Cubic(c, x) == c[1] + c[2] * x + c[3] * x * x + c[4] * x * x * x

\* the coefficient list is None, empty, or has the four entries read
ValidCoeffs(c) == ~c.present \/ Len(c.v) = 0 \/ Len(c.v) >= 4
NoCoeffs(c) == ~c.present \/ Len(c.v) = 0

\* wavelengths has one entry per pixel, the pixel index when no coefficients
\* are present
WavelengthsFit(p, c, wl) ==
    /\ wl.present
    /\ Len(wl.v) = p
    /\ NoCoeffs(c) => \A x \in 0..(p - 1) : wl.v[x + 1] = x

\* C12 as stated: after any construction or unlocked recalibration with pixel
\* count P >= 1, wavelengths has length exactly P, and is the identity
\* mapping when no wavelength coefficients are present.
C12_Original ==
    /\ nops = 0 => WavelengthsFit(pixels, eeprom.wavelength_coeffs, wavelengths)
    /\ [][(IsRecalibration /\ ~lock_wavecal /\ pixels' >= 1)
            => WavelengthsFit(pixels', eeprom'.wavelength_coeffs, wavelengths')]_vars

\* C12 amended: after a construction or unlocked recalibration with pixel
\* count P >= 1 and a coefficient list that is absent, empty or has at least
\* four entries, wavelengths has length exactly P, and is the identity
\* mapping when no coefficients are present.
C12_WavelengthsLength ==
    /\ nops = 0 => WavelengthsFit(pixels, eeprom.wavelength_coeffs, wavelengths)
    /\ [][(/\ IsRecalibration
           /\ ~lock_wavecal
           /\ pixels' >= 1
           /\ ValidCoeffs(eeprom'.wavelength_coeffs))
            => WavelengthsFit(pixels', eeprom'.wavelength_coeffs, wavelengths')]_vars

\* C12 witness: three pixels recalibrated with no coefficients present
C12_Witness ==
    /\ ~lock_wavecal
    /\ pixels = 3
    /\ ~eeprom.wavelength_coeffs.present
    /\ wavelengths = Some(<<0, 1, 2>>)

\* generate_wavelengths on every bounded integer input
GenerateWavelengthsIsCubic ==
    \A p \in PolyPixels : \A c \in PolyCoeffs \X PolyCoeffs \X PolyCoeffs \X PolyCoeffs :
        LET w == generate_wavelengths(p, c[1], c[2], c[3], c[4])
        IN  /\ Len(w) = p
            /\ \A x \in 0..(p - 1) : w[x + 1] = Cubic(c, x)

\* C13: for every pixel count P and integer coefficients (c0, c1, c2, c3),
\* generate_wavelengths returns for every x in [0, P) exactly
\* c0 + c1 x + c2 x^2 + c3 x^3, in ascending pixel order; so do the
\* wavelengths a direct unlocked update_wavecal call stores.
C13_CubicPerPixel ==
    /\ GenerateWavelengthsIsCubic
    /\ (/\ lastop.op = "update_wavecal"
        /\ ~lock_wavecal
        /\ pixels >= 1
        /\ eeprom.wavelength_coeffs.present
        /\ Len(eeprom.wavelength_coeffs.v) >= 4)
       => /\ wavelengths.present
          /\ Len(wavelengths.v) = pixels
          /\ \A x \in 0..(pixels - 1) :
                wavelengths.v[x + 1] = Cubic(eeprom.wavelength_coeffs.v, x)

\* C13 witness: a direct call has recalibrated three pixels with the
\* coefficients (1, 2, 1, 1)
C13_Witness ==
    /\ lastop.op = "update_wavecal"
    /\ ~lock_wavecal
    /\ pixels = 3
    /\ eeprom.wavelength_coeffs = Some(<<1, 2, 1, 1>>)
    /\ wavelengths = Some(<<1, 5, 17>>)

(* ------------------------ wavenumbers, excitation --------------------- *)
\* the EEPROM fields once update_obj_from_dict has applied the EEPROM section
MergedEeprom(doc) ==
    [k \in DOMAIN eeprom |-> update_obj_from_dict(EepromObject, doc.eeprom)[k]]

\* wavenumbers as derived from an excitation (tenths) and the wavelengths
WavenumbersFit(excitation10, wl, wn, err) ==
    LET none == excitation10 <= 0 \/ ~wl.present \/ Len(wl.v) = 0
    IN  /\ ~wn.present <=> none
        /\ ~none =>
              /\ err = "none"
              /\ wn.present
              /\ Len(wn.v) = Len(wl.v)
              /\ \A i \in 1..Len(wl.v) :
                    wn.v[i] = IF wl.v[i] # 0
                                THEN Wavenumber(excitation10, wl.v[i])
                                ELSE ZeroWavenumber

\* C14: after an unlocked recalibration wavenumbers is absent if and only if
\* the reconciled excitation is <= 0 or wavelengths is empty; for any
\* excitation > 0, values between 0 and 1 included, wavenumbers has the
\* length of wavelengths with wavenumbers[i] = 1e7/excitation -
\* 1e7/wavelengths[i], or 0 where wavelengths[i] = 0, and the recalibration
\* completes without error.
C14_WavenumbersIffExcitation ==
    /\ [][\A doc \in Docs :
            (doc.has_eeprom /\ UpdateFromJson(doc) /\ ~lock_wavecal)
              => WavenumbersFit(excitation(MergedEeprom(doc)), wavelengths',
                                wavenumbers', raised')]_vars
    /\ [][\A coeffs \in WavecalArgs :
            (UpdateWavecalCall(coeffs) /\ ~lock_wavecal)
              => WavenumbersFit(excitation(eeprom), wavelengths',
                                wavenumbers', raised')]_vars

\* the floating-point excitation is a number in [200, 2500]
FloatInRange(new) == new.kind = "num" /\ 2000 <= new.v /\ new.v <= 25000

\* C15: excitation() returns the floating-point excitation exactly when it
\* lies in [200, 2500] and the legacy value otherwise (absent, NaN, zero or
\* out of range); a warning is emitted when the floating value is nonzero and
\* out of range, and none when it is zero or in range.
C15_ExcitationReconciled ==
    lastop.op = "excitation" =>
        LET new == eeprom.excitation_nm_float
        IN  /\ lastop.ret = IF FloatInRange(new) THEN new.v
                            ELSE eeprom.excitation_nm
            /\ (new.kind = "num" /\ new.v # 0 /\ ~FloatInRange(new))
                  => \E r \in log : r.level = "warning"
            /\ ((new.kind = "num" /\ new.v = 0) \/ FloatInRange(new))
                  => log = {}

\* the arrays the recalibration calls derive from the current EEPROM fields
\* and pixel count
DerivedArrays ==
    Recalibrate([SettingsState EXCEPT !.lock_wavecal = FALSE])

\* C16: derived calibration arrays are never stale: once connect() has
\* loaded the device's EEPROM, with the lock flag clear, wavelengths (and
\* wavenumbers and Raman factors when present) have length equal to the
\* current pixel count and are the arrays derived from the current EEPROM
\* coefficients.
C16_NeverStale ==
    (connector = "done" /\ ~lock_wavecal) =>
        /\ wavelengths.present
        /\ Len(wavelengths.v) = pixels
        /\ wavelengths = DerivedArrays.wavelengths
        /\ wavenumbers = DerivedArrays.wavenumbers
        /\ raman_intensity_factors = DerivedArrays.raman_intensity_factors

(* ------------------------------ the lock ------------------------------ *)
\* a step of update_from_json that carries an EEPROM section
IsEepromMerge == \E doc \in Docs : doc.has_eeprom /\ UpdateFromJson(doc)

\* the Raman factors computed from the fields as they are after the step
RamanFactorsAfter ==
    update_raman_intensity_factors(
        [SettingsState EXCEPT !.pixels = pixels', !.eeprom = eeprom']
    ).raman_intensity_factors

RamanSucceeds(pixelcount, coeffs) ==
    \A x \in 0..(pixelcount - 1) : Log10Factor(coeffs, x, 0) <= MaxExp10

\* the factors are present exactly when the calibration is there, its
\* format is from 1 to maxformat, coefficients are present and every pixel
\* computes; when present there is one factor per pixel
RamanFactorsFit(maxformat) ==
    /\ raman_intensity_factors.present <=>
          /\ has_raman_intensity_calibration(eeprom)
          /\ 1 <= eeprom.raman_intensity_calibration_format
          /\ eeprom.raman_intensity_calibration_format <= maxformat
          /\ eeprom.raman_intensity_coeffs.present
          /\ RamanSucceeds(pixels, eeprom.raman_intensity_coeffs.v)
    /\ raman_intensity_factors.present =>
          /\ Len(raman_intensity_factors.v) = pixels
          /\ \A x \in 0..(pixels - 1) :
                raman_intensity_factors.v[x + 1] =
                    Pow10(Log10Factor(eeprom.raman_intensity_coeffs.v, x, 0))

\* C18 as stated: Raman intensity factors are present after
\* update_raman_intensity_factors if and only if the device has a Raman
\* intensity calibration, its format is between 1 and the maximum term count,
\* coefficients are present and the computation succeeded; when present the
\* array has exactly pixel-count entries, and a failure at any pixel leaves
\* it absent.
C18_Original ==
    lastop.op = "update_raman_intensity_factors"
        => RamanFactorsFit(MAX_INTENSITY_TERMS)

\* C18 amended: as stated, with the format at least 1 and strictly below
\* the maximum term count.
C18_RamanAllOrNothing ==
    lastop.op = "update_raman_intensity_factors"
        => RamanFactorsFit(MAX_INTENSITY_TERMS - 1)

\* C18 witness: the exponent overflows at pixel 1 and no factor is kept
C18_Witness ==
    /\ lastop.op = "update_raman_intensity_factors"
    /\ has_raman_intensity_calibration(eeprom)
    /\ eeprom.raman_intensity_calibration_format = 1
    /\ eeprom.raman_intensity_coeffs = Some(<<300, 10>>)
    /\ pixels >= 2
    /\ ~raman_intensity_factors.present

(* -------------------------- failure isolation ------------------------- *)
\* a non-empty coefficient list too short to index up to [3]
ShortCoeffs(c) == c.present /\ Len(c.v) > 0 /\ Len(c.v) < 4

\* C19: calibration failures are isolated per derived array: when computing
\* the wavelength/wavenumber arrays fails during a recalibration (e.g. a
\* coefficient list with fewer than 4 entries) the failure does not reach the
\* caller, the failed array becomes absent and the Raman intensity factor
\* computation still runs; and a failing Raman computation leaves the
\* wavelength arrays computed.
C19_FailuresIsolated ==
    [][(IsEepromMerge /\ ~lock_wavecal)
        => /\ raised' = "none"
           /\ raman_intensity_factors' = RamanFactorsAfter
           /\ (pixels' >= 1 /\ ShortCoeffs(eeprom'.wavelength_coeffs))
                 => ~wavelengths'.present /\ ~wavenumbers'.present
           /\ (pixels' >= 1 /\ ValidCoeffs(eeprom'.wavelength_coeffs))
                 => wavelengths'.present]_vars

(* ------------------------- the structured merge ----------------------- *)
\* the keys of the EEPROM section, none when the section is absent
NamedEeprom(doc) == IF doc.has_eeprom THEN DOMAIN doc.eeprom ELSE {}
NamedFpga(doc)   == IF doc.has_fpga THEN DOMAIN doc.fpga ELSE {}

\* no attribute is created, and the attributes in keep that the input does
\* not name have the values they had
MergeFrame(doc, keep) ==
    /\ DOMAIN eeprom' = DOMAIN eeprom
    /\ DOMAIN fpga_options' = DOMAIN fpga_options
    /\ \A k \in (DOMAIN EepromObject \cap keep) \ NamedEeprom(doc) :
          EepromObject'[k] = EepromObject[k]
    /\ \A k \in DOMAIN fpga_options \ NamedFpga(doc) :
          fpga_options'[k] = fpga_options[k]

\* update_wavecal reaches line 204 after the merge of doc
SyncsLegacyExcitation(doc) ==
    /\ doc.has_eeprom
    /\ ~lock_wavecal
    /\ pixels' >= 1
    /\ ~ShortCoeffs(MergedEeprom(doc).wavelength_coeffs)
    /\ excitation(MergedEeprom(doc)) > 0

\* C20 as stated: update_from_json changes only attributes that already
\* exist on the destination sub-object: a key that names no existing
\* attribute creates none, every existing attribute not named in the input
\* keeps its value, and a section absent from the input leaves its sub-object
\* unchanged.
C20_Original ==
    [][\A doc \in Docs :
          UpdateFromJson(doc) => MergeFrame(doc, DOMAIN EepromObject)]_vars

\* C20 amended: as stated, except that the legacy excitation_nm, when the
\* EEPROM section is present, the wavecal is unlocked and the recalibration
\* finds an excitation > 0, is set to that excitation rounded to a whole
\* number, whether the input names it or not; with the section absent, the
\* lock set or no excitation, an unnamed excitation_nm keeps its value too.
C20_MergeFrame ==
    [][\A doc \in Docs :
          UpdateFromJson(doc) =>
            /\ MergeFrame(doc, DOMAIN EepromObject \ {"excitation_nm"})
            /\ SyncsLegacyExcitation(doc) =>
                  eeprom'.excitation_nm =
                      RoundTenths(excitation(MergedEeprom(doc)))
            /\ (~SyncsLegacyExcitation(doc)
                  /\ "excitation_nm" \notin NamedEeprom(doc))
                  => eeprom'.excitation_nm = eeprom.excitation_nm]_vars

\* C20 witness: merges have set the serial number beside an unknown key and
\* the floating excitation 830.4; no attribute was created and the legacy
\* excitation, never named, reads 830.0
C20_Witness ==
    /\ lastop.op = "update_from_json"
    /\ eeprom.serial_number = "WP-2"
    /\ DOMAIN eeprom = DOMAIN DefaultEeprom
    /\ DOMAIN fpga_options = DOMAIN DefaultFpgaOptions
    /\ eeprom.excitation_nm_float = Float(8304)
    /\ eeprom.excitation_nm = 8300

(* --------------------- merge and recalibration ------------------------ *)
\* C21: a merge containing an EEPROM section always runs the full
\* recalibration after the fields are applied: the Raman intensity factors
\* are those computed from the merged fields and, with the wavecal unlocked
\* and usable coefficients, wavelengths is recomputed for the merged pixel
\* count and wavenumbers for the merged excitation; a merge without an EEPROM
\* section leaves wavelengths, wavenumbers, Raman intensity factors and every
\* EEPROM field unchanged.
C21_EepromMergeRecalibrates ==
    [][\A doc \in Docs :
          UpdateFromJson(doc) =>
            /\ doc.has_eeprom =>
                  /\ raman_intensity_factors' = RamanFactorsAfter
                  /\ (/\ ~lock_wavecal
                      /\ pixels' >= 1
                      /\ ValidCoeffs(MergedEeprom(doc).wavelength_coeffs))
                        => /\ WavelengthsFit(pixels',
                                             MergedEeprom(doc).wavelength_coeffs,
                                             wavelengths')
                           /\ excitation(MergedEeprom(doc)) >= 10
                                 => /\ wavenumbers'.present
                                    /\ Len(wavenumbers'.v) = pixels'
            /\ ~doc.has_eeprom =>
                  UNCHANGED <<busvars, wavelengths, wavenumbers,
                              raman_intensity_factors, eeprom, pixels>>]_vars

(* ------------------------ detector setpoint --------------------------- *)
\* A settings object whose EEPROM fields are merged and whose default
\* detector setpoint is asked for
NextSetpoint ==
    \/ \E doc \in SetpointDocs : UpdateFromJson(doc)
    \/ DefaultDetectorSetpointCall

SpecSetpoint == InitSettingsOnly /\ [][NextSetpoint]_vars

\* the table of detector-name substrings and setpoints, in order
SetpointTable ==
    << <<DetS11511, 10>>, <<DetS10141, -15>>, <<DetG9214, -15>>,
       <<Det7031, -15>> >>

\* the table rows whose substring occurs in the name, whatever its case
MatchingRows(name) ==
    {i \in 1..Len(SetpointTable) :
        \E j \in 1..Len(name) :
            /\ j + Len(SetpointTable[i][1]) - 1 <= Len(name)
            /\ \A k \in 1..Len(SetpointTable[i][1]) :
                  UpperChar(name[j + k - 1]) = SetpointTable[i][1][k]}

\* C22: default_detector_setpoint_degC returns the stored startup
\* temperature whenever the EEPROM schema version is >= 4; below 4 it
\* returns the table value of the first table row whose substring occurs in
\* the detector name, case-insensitively; and None, never a number, when no
\* row matches.
C22_DefaultSetpoint ==
    lastop.op = "default_detector_setpoint_degC" =>
        IF eeprom.format >= 4
          THEN lastop.ret = Some(eeprom.startup_temp_degC)
        ELSE IF MatchingRows(eeprom.detector) = {}
          THEN lastop.ret = Absent
        ELSE LET first == CHOOSE i \in MatchingRows(eeprom.detector) :
                            \A j \in MatchingRows(eeprom.detector) : i <= j
             IN  lastop.ret = Some(SetpointTable[first][2])

\* C22 witness: schema version 3 and a detector name in lower case that
\* holds S11511 give 10
C22_Witness ==
    /\ lastop.op = "default_detector_setpoint_degC"
    /\ eeprom.format = 3
    /\ eeprom.detector = <<"s", "1", "1", "5", "1", "1">>
    /\ lastop.ret = Some(10)

(* ----------------------------- device buses --------------------------- *)
\* A WasatchBus is constructed and updated while the backend changes
InitBus ==
    /\ InitSettings
    /\ InitUnconnected
    /\ InitBle
    /\ script = <<RespSix>>
    /\ dev_eeprom = DevEeprom(1, 1)
    /\ backend \in BackendOutcomes

NextBus ==
    \/ \E monitor_dir \in MonitorDirs : WasatchBusInit(monitor_dir)
    \/ WasatchBusUpdate
    \/ \E b \in BackendOutcomes : BackendChange(b)

SpecBus == InitBus /\ [][NextBus]_vars

\* the device ids one enumeration of backend outcome b yields
Enumeration(b) == IF b.kind = "devices" THEN b.ids ELSE << >>

\* C23: WasatchBus construction and update() never raise, for every
\* configured sub-bus kind (USB bus, or file bus when a monitor directory is
\* given) and every backend outcome (devices found, no devices, backend
\* missing, backend error); a sub-bus that fails contributes zero devices.
C23_BusNeverRaises ==
    /\ [](wasatch_bus.raised = "none")
    /\ [][(\E monitor_dir \in MonitorDirs : WasatchBusInit(monitor_dir))
            => /\ wasatch_bus'.state = "ok"
               /\ backend.kind # "devices" => wasatch_bus'.device_ids = << >>]_vars
    /\ [][(WasatchBusUpdate /\ backend.kind # "devices")
            => wasatch_bus'.device_ids = << >>]_vars

\* C24: WasatchBus.update() is idempotent: after any number of consecutive
\* update() calls with an unchanged set of reachable devices, device_ids
\* equals the list produced by a single enumeration, in backend discovery
\* order, with no accumulation or duplication across calls.
C24_UpdateIdempotent ==
    /\ [][WasatchBusUpdate
            => wasatch_bus'.device_ids = Enumeration(backend)]_vars
    /\ [][(WasatchBusUpdate /\ wasatch_bus.device_ids = Enumeration(backend))
            => wasatch_bus'.device_ids = wasatch_bus.device_ids]_vars
    /\ [][(\E monitor_dir \in MonitorDirs : WasatchBusInit(monitor_dir))
            => (wasatch_bus'.state = "ok"
                  => wasatch_bus'.device_ids = Enumeration(backend))]_vars

\* C24 witness: two updates after construction, two devices reachable, and
\* device_ids lists them once each in discovery order
C24_Witness ==
    /\ wasatch_bus.state = "ok"
    /\ wasatch_bus.nupdates = 2
    /\ backend = Devices(<<"B", "A">>)
    /\ wasatch_bus.device_ids = <<"B", "A">>

\* C25: over any number of USBBus.update() calls during which the USB
\* backend is missing, the missing-backend warning is emitted at most once,
\* on the first such call, and every one of those calls returns an empty
\* device list.
C25_MissingBackendWarnedOnce ==
    /\ [](wasatch_bus.warned <= 1)
    /\ [](wasatch_bus.warned = 1 <=> wasatch_bus.nmissing >= 1)
    /\ [][(WasatchBusUpdate /\ backend.kind = "missing")
            => /\ wasatch_bus'.usb_ret = << >>
               /\ wasatch_bus'.warned = wasatch_bus.warned
                    + (IF wasatch_bus.nmissing = 0 THEN 1 ELSE 0)]_vars

\* C25 witness: three enumerations have met a missing backend and one
\* warning was emitted
C25_Witness ==
    /\ wasatch_bus.state = "ok"
    /\ backend = BackendMissing
    /\ wasatch_bus.nmissing >= 3
    /\ wasatch_bus.warned = 1
    /\ wasatch_bus.usb_ret = << >>
    /\ wasatch_bus.device_ids = << >>

(* ---------------------------- setting writes -------------------------- *)
\* change_settings calls on a connected device, the loop running them
NextSetting ==
    \/ \E sv \in SettingWrites : ChangeSettings(sv[1], sv[2])
    \/ LoopPick
    \/ \E t \in waiting : TransportDone(t)
    \/ SetIntegrationTimeWrite
    \/ SetGainWrite
    \/ SettingDone

SpecSetting == Init /\ [][NextSetting]_vars

\* data is two bytes, high byte first, of the 16-bit value whose high byte
\* is hi and whose low byte is lo
TwoBytes(data, hi, lo) ==
    /\ Len(data) = 2
    /\ \A i \in 1..2 : data[i] \in 0..255
    /\ data[1] = hi
    /\ data[2] = lo

\* floor(frac * 256) for a fraction given in tenths
FracScaled(tenths) ==
    CHOOSE n \in 0..255 : n * 10 <= tenths * 256 /\ tenths * 256 < (n + 1) * 10

\* C26: a setting write puts exactly 2 bytes on the transport: for
\* integration time t in 0..65535 the bytes are (t div 256, t mod 256); for
\* gain g with integer part in 0..255 they are (integer part of g,
\* floor(fractional part of g * 256) mod 256), high byte first.
C26_SettingWriteBytes ==
    /\ [][(SetIntegrationTimeWrite /\ running.arg \in 0..65535)
            => /\ Len(calls') = Len(calls) + 1
               /\ calls'[Len(calls')].op = "write"
               /\ calls'[Len(calls')].uuid = SET_INT_UUID
               /\ TwoBytes(calls'[Len(calls')].data,
                           running.arg \div 256, running.arg % 256)]_vars
    /\ [][(SetGainWrite /\ running.arg \div 10 \in 0..255)
            => /\ Len(calls') = Len(calls) + 1
               /\ calls'[Len(calls')].op = "write"
               /\ calls'[Len(calls')].uuid = SET_GAIN_UUID
               /\ TwoBytes(calls'[Len(calls')].data,
                           running.arg \div 10,
                           FracScaled(running.arg % 10) % 256)]_vars

\* C26 witness: gain 255.9 has been written as the bytes (255, 230)
C26_Witness ==
    /\ Len(calls) = 1
    /\ calls[1] = WriteCall(SET_GAIN_UUID, <<255, 230>>)

(* ------------------------- acquisition exchange ----------------------- *)
\* the positions in calls of the calls on the spectrum characteristics
SpectrumCallAt(i) ==
    calls[i].uuid \in {DEVICE_ACQUIRE_UUID, SPECTRUM_PIXELS_UUID,
                       READ_SPECTRUM_UUID}

\* C27: in every acquisition the acquire trigger write is the first
\* transport call and precedes every packet request; each packet request
\* carries a 2-byte big-endian pixel offset and is followed by exactly one
\* packet read before the next request. An acquire_data call that returned
\* anything but the failure value has run one acquisition.
C27_TriggerThenRequests ==
    /\ \A c \in Callers :
          (Returned(c) /\ result[c] # NoneVal) =>
              /\ CountCalls("write", DEVICE_ACQUIRE_UUID) >= 1
              /\ PacketRequests >= 1
    /\ \A i \in 1..Len(calls) :
          (calls[i].op = "write" /\ calls[i].uuid = SPECTRUM_PIXELS_UUID) =>
              /\ \E k \in 1..(i - 1) :
                    calls[k] = WriteCall(DEVICE_ACQUIRE_UUID, << >>)
              /\ Len(calls[i].data) = 2
              /\ \A j \in (i + 1)..Len(calls) :
                    (SpectrumCallAt(j)
                       /\ \A k \in (i + 1)..(j - 1) : ~SpectrumCallAt(k))
                      => calls[j] = ReadCall(READ_SPECTRUM_UUID)

(* ------------------------- blocking operations ------------------------ *)
\* the coroutines submitted to the loop that have not finished
Unfinished == {ready[i] : i \in 1..Len(ready)} \cup waiting
                  \cup (IF running = NoTask THEN {} ELSE {running})

\* C29: every synchronous device operation that submits transport work
\* blocks until that work has completed or failed: when change_settings for
\* integration_time_ms or detector_gain returns, its transport write has
\* finished, just as acquire_data returns only after its coroutine has
\* finished.
C29_SyncOpsBlock ==
    /\ [][\A sv \in SettingCalls :
            ChangeSettings(sv[1], sv[2]) =>
                \A t \in Unfinished' :
                    t.kind \notin {"set_integration_time_ms", "set_gain"}]_vars
    /\ [][\A c \in Callers :
            (pc[c] # "idle" /\ pc'[c] = "idle") =>
                \A t \in Unfinished' :
                    ~(t.kind = "ble_acquire" /\ t.owner = c)]_vars

(* -------------------------------- close ------------------------------- *)
\* the fields of the device object that close() could touch
DeviceFields ==
    <<disconnect, disconnect_event, performing_acquire, perfroming_acquire,
      session_reading_count, pixels, integration_time_ms, setvars>>

\* C30: close() is idempotent and the disconnect signal is monotonic: once
\* close() has been called, the disconnect flag and the disconnect event are
\* both set in every later state, nothing ever clears them, and a second
\* close() leaves the device in the same state as the first.
C30_CloseIdempotent ==
    /\ [](nclose >= 1 => disconnect)
    /\ []((nclose >= 2 \/ (nclose = 1 /\ closer # "l264")) => disconnect_event)
    /\ [][disconnect => disconnect']_vars
    /\ [][disconnect_event => disconnect_event']_vars
    /\ [][(closer' # closer /\ nclose' >= 2) => UNCHANGED DeviceFields]_vars

\* C30 witness: a second close() has returned, flag and event set
C30_Witness ==
    /\ nclose = 2
    /\ closer = "idle"
    /\ closefut = "done"
    /\ disconnect
    /\ disconnect_event
    /\ CountCalls("disconnect", "") = 2

(* --------------------------- connect() order -------------------------- *)
\* handshakes issued on the transport
ConnectCalls == CountCalls("connect", "")

\* the EEPROM fields of the device before read_eeprom() has run
UndecodedEeprom == [ConstructedSettings.eeprom EXCEPT !.detector = DetBle]

\* the positions of connect() before line 62 has run, and its failed end
BeforeDecode == {"idle", "l59", "l61", "l62", "raised"}

\* what holds at each position of connect(): the handshake precedes every
\* EEPROM call, the decode follows the whole EEPROM read, the label follows
\* the decode, and a failed handshake is followed by no EEPROM call
ConnectStepsInOrder ==
    /\ ConnectCalls <= 1
    /\ \A i \in 1..Len(calls) :
          IsEepromCall(calls[i]) =>
              /\ \E j \in 1..(i - 1) : calls[j] = ConnectCall
              /\ connector \notin {"idle", "l59", "raised"}
    /\ connector \in BeforeDecode =>
          /\ eeprom = UndecodedEeprom
          /\ pixels = DefaultPixels
          /\ label = InitLabel
    /\ connector \notin (BeforeDecode \ {"l62"}) =>
          /\ EepromCalls = ExpectedEepromCalls
          /\ buffers = PagesOf(dev_eeprom)
    /\ connector \notin BeforeDecode =>
          /\ eeprom = DecodedEeprom(UndecodedEeprom, PagesOf(dev_eeprom))
          /\ pixels = DecodedPixels(PagesOf(dev_eeprom))
    /\ connector = "l63" => label = InitLabel
    /\ connector \in {"l64", "done"} => label = Label(eeprom)
    /\ connfut.state = "raised" =>
          /\ connector \in {"l59", "raised"}
          /\ ConnectCalls = 1
          /\ EepromCalls = << >>
          /\ ee.phase = "none"

\* C31: connect() performs its steps in the order transport handshake,
\* EEPROM read, EEPROM decode, label update, and returns True only after all
\* of them; if the handshake fails the failure is reported to the caller
\* (connect() ends with the exception), no EEPROM selector write or read is
\* issued, and the handshake is not retried.
C31_ConnectOrder ==
    /\ []ConnectStepsInOrder
    /\ [][(connfut.state = "raised" /\ connector' # connector) =>
              connector' = "raised"]_vars
    /\ [][connector = "raised" =>
              /\ connector' = "raised"
              /\ ConnectCalls' = ConnectCalls
              /\ EepromCalls' = EepromCalls]_vars

\* C31 witness: the handshake failed and connect() has ended with its
\* exception, one handshake and no EEPROM call having been issued
C31_Witness ==
    /\ connector = "raised"
    /\ connfut.state = "raised"
    /\ ConnectCalls = 1
    /\ EepromCalls = << >>
    /\ label = InitLabel
    /\ running = NoTask /\ ready = << >> /\ waiting = {}

(* ----------------------- acquisition termination ---------------------- *)
\* The connected device facing a device that answers without end; threads
\* call acquire_data and close().
InitAcquire ==
    /\ InitSettings
    /\ InitConnected
    /\ InitBleWith(AcquireScripts)
    /\ backend = Devices(<< >>)

NextAcquire ==
    \/ \E c \in Callers : AcquireGuard(c)
    \/ \E c \in Callers : AcquireDisconnectCheck(c)
    \/ \E c \in Callers : AcquireCount(c)
    \/ \E c \in Callers : AcquireSubmit(c)
    \/ \E c \in Callers : AcquireResult(c)
    \/ CloseSetFlag
    \/ CloseSetEvent
    \/ CloseSubmit
    \/ CloseResult
    \/ LoopPick
    \/ \E t \in waiting : TransportDone(t)
    \/ BleAcquireCheck
    \/ BleAcquireReturn
    \/ DisconnectSpecCall
    \/ DisconnectSpecDone

\* the steps that follow from a call already made: the statements of
\* acquire_data and close() after their first, the loop, the coroutines and
\* the transport
AcquireProgress ==
    \/ \E c \in Callers : AcquireDisconnectCheck(c)
    \/ \E c \in Callers : AcquireCount(c)
    \/ \E c \in Callers : AcquireSubmit(c)
    \/ \E c \in Callers : AcquireResult(c)
    \/ CloseSetEvent
    \/ CloseSubmit
    \/ CloseResult
    \/ LoopPick
    \/ \E t \in waiting : TransportDone(t)
    \/ BleAcquireCheck
    \/ BleAcquireReturn
    \/ DisconnectSpecCall
    \/ DisconnectSpecDone

\* A thread that has made a call keeps running, the loop keeps running and
\* every transport call returns; no thread is bound to make a further call.
SpecAcquire == InitAcquire /\ [][NextAcquire]_vars /\ WF_vars(AcquireProgress)

\* the acquisition ended Complete (a reading) or Failed (None)
CompleteOrFailed(c) ==
    /\ pc[c] = "idle"
    /\ (result[c] = NoneVal \/ result[c].kind = "Reading")

\* C32: every acquisition terminates: for every pixel count and every
\* endless sequence of device responses (including well-formed responses
\* that carry a header and zero pixels), an acquisition whose exchange has
\* been submitted reaches Complete or Failed, each transport call returning.
C32_AcquisitionTerminates ==
    \A c \in Callers : (pc[c] = "l101") ~> CompleteOrFailed(c)

(* -------------------------- pixel placement --------------------------- *)
\* response r is a valid packet that reports an intensity for the pixel
\* index i (0-based): the k-th pixel of a packet whose header declares the
\* first-pixel index f is the pixel of index f + k
Reports(r, i) ==
    /\ ~InvalidLength(r)
    /\ ~IsNack(r)
    /\ FirstPixel(r) <= i
    /\ i < FirstPixel(r) + PixelsInPacket(r)

\* the spectrum indices (0-based) the edge fix-up of lines 191-194 leaves
\* as they were assembled
Assembled == 4..(pixels - 2)

\* C33: in a completed acquisition every spectrum index holds the intensity
\* the device reported for that pixel index: an acquire_data call that
\* returned anything but the failure value returned a reading in which every
\* index the edge fix-up leaves alone holds the intensity that a valid packet
\* of the device, of first-pixel index f, carries at its position k with
\* f + k equal to that index.
C33_PixelsAtReportedIndex ==
    \A c \in Callers :
        (Returned(c) /\ result[c] # NoneVal) =>
            /\ result[c].kind = "Reading"
            /\ \A i \in Assembled :
                  \E n \in 1..Len(script) :
                      /\ Reports(script[n], i)
                      /\ result[c].spectrum[i + 1] =
                            Intensity(script[n], i - FirstPixel(script[n]) + 1)

(* --------------------------- the retry count -------------------------- *)
\* the device rejects response r
Rejected(r) == InvalidLength(r) \/ IsNack(r)

RECURSIVE FifthRejectionFirst(_, _, _)
\* Reading the responses of the script from the n-th on, with read pixels
\* accepted and rejected responses rejected so far in the acquisition, the
\* rejection number MAX_RETRIES + 1 comes before the spectrum is complete.
FifthRejectionFirst(n, read, rejected) ==
    IF rejected > MAX_RETRIES THEN TRUE
    ELSE IF read >= pixels \/ n > Len(script) THEN FALSE
    ELSE IF Rejected(script[n])
      THEN FifthRejectionFirst(n + 1, read, rejected + 1)
      ELSE FifthRejectionFirst(n + 1, read + PixelsInPacket(script[n]),
                               rejected)

\* C34: the retry count of an acquisition is cumulative: it starts at 0
\* with pixels-read, grows by one per rejected response and is never reset
\* or decreased by an accepted packet, so an acquisition fails at its 5th
\* rejected response even when valid packets arrived in between: an
\* acquire_data call against a device whose 5th rejection comes before the
\* last pixel returns the failure value.
C34_RetryCountCumulative ==
    \A c \in Callers :
        (Returned(c) /\ FifthRejectionFirst(1, 0, 0)) => result[c] = NoneVal

(* -------------------------- the session counter ------------------------ *)
\* caller c's acquire_data call returns early, through the in-flight guard
\* (line 94) or the disconnect check (line 96)
ReturnsEarly(c) ==
    /\ pc[c] \in {"idle", "l95"}
    /\ pc'[c] = "idle"
    /\ (pc'[c] # pc[c] \/ ncalls'[c] # ncalls[c])

\* caller c's acquire_data call passes line 98 and goes on to submit its
\* exchange
StartsExchange(c) == pc[c] = "l97" /\ pc'[c] = "l99"

\* the exchange of caller c completes with something other than failure
ExchangeCompletes(c) ==
    fut[c] = PendingVal /\ fut'[c] \notin {PendingVal, NoneVal}

\* C35: the session counter increases by exactly 1 for each acquire_data
\* call that starts an exchange and is unchanged by a call that returns
\* early through the in-flight guard or the disconnect check; it never
\* decreases, and a returned reading's session_count equals the counter
\* value at the time that reading's exchange completed.
C35_SessionCounter ==
    /\ [][session_reading_count' >= session_reading_count]_vars
    /\ [][\A c \in Callers :
            StartsExchange(c) =>
                session_reading_count' = session_reading_count + 1]_vars
    /\ [][(\A c \in Callers : ~StartsExchange(c)) =>
                session_reading_count' = session_reading_count]_vars
    /\ [][\A c \in Callers :
            ReturnsEarly(c) =>
                session_reading_count' = session_reading_count]_vars
    /\ [][\A c \in Callers :
            ExchangeCompletes(c) =>
                /\ fut'[c].kind = "Reading"
                /\ fut'[c].session_count = session_reading_count]_vars
====
